---------------------------- MODULE Spec2Model ----------------------------
(***************************************************************************)
(* IFC -> USD conversion pipeline of BIM-Composer                          *)
(* (src/viewer/ifc/ifcToUsdConverter.js, propertySetAnalyzer.js,           *)
(* geometryHasher.js).                                                     *)
(*                                                                         *)
(* The converter object (`this`) is the record `conv`; its fields carry    *)
(* the names of the source.  A JavaScript Map / plain object is a sequence *)
(* of entries [k, v] in insertion order.  Text that the code builds,       *)
(* splits or truncates is a sequence of one-character strings.             *)
(* The entity-graph provider (ifcParser) is the record `model`: what each  *)
(* of its calls returns or throws for the file being converted.            *)
(*                                                                         *)
(* The stand-alone functions of the repository (geometry hashing, the USDA *)
(* geometry extractors, the USDA syntax validator, the prim composer) are  *)
(* operators; `input` holds the argument of a call of one of them and      *)
(* `output` what the call returned.                                        *)
(***************************************************************************)
EXTENDS Integers, Sequences, FiniteSets, TLC

VARIABLES conv, pc, model, runs, progress, input, output

vars == <<conv, pc, model, runs, progress, input, output>>

(***************************************************************************)
(* Bounds                                                                  *)
(***************************************************************************)
\* convert() calls made on the same converter object
MaxRuns == 2

(***************************************************************************)
(* JavaScript values                                                       *)
(***************************************************************************)
Undef == "undefined"
Null == "null"
Throw == "throw"

Max(a, b) == IF a >= b THEN a ELSE b

\* ---- text ----
Upper == <<"A","B","C","D","E","F","G","H","I","J","K","L","M","N","O","P","Q","R","S","T","U","V","W","X","Y","Z">>
Lower == <<"a","b","c","d","e","f","g","h","i","j","k","l","m","n","o","p","q","r","s","t","u","v","w","x","y","z">>
Digits == <<"0","1","2","3","4","5","6","7","8","9">>

IndexIn(seq, x) == CHOOSE i \in 1..Len(seq) : seq[i] = x
InSeq(seq, x) == \E i \in 1..Len(seq) : seq[i] = x

\* UTF-16 code unit of a character of the alphabet in use
CharCode(ch) ==
  IF InSeq(Upper, ch) THEN 64 + IndexIn(Upper, ch)
  ELSE IF InSeq(Lower, ch) THEN 96 + IndexIn(Lower, ch)
  ELSE IF InSeq(Digits, ch) THEN 47 + IndexIn(Digits, ch)
  ELSE IF ch = "," THEN 44
  ELSE IF ch = ":" THEN 58
  ELSE IF ch = "_" THEN 95
  ELSE IF ch = "|" THEN 124
  ELSE 32

\* a < b in the order of Array.prototype.sort without comparator
StrLess(a, b) ==
  LET n == IF Len(a) < Len(b) THEN Len(a) ELSE Len(b)
      diff == {i \in 1..n : a[i] # b[i]}
  IN IF diff = {} THEN Len(a) < Len(b)
     ELSE LET d == CHOOSE i \in diff : \A j \in diff : i <= j
          IN CharCode(a[d]) < CharCode(b[d])

RECURSIVE Join(_, _)
Join(strs, sep) ==
  IF strs = <<>> THEN <<>>
  ELSE IF Len(strs) = 1 THEN strs[1]
  ELSE strs[1] \o sep \o Join(Tail(strs), sep)

\* String.prototype.split(sep) for a one-character separator
Split(s, sep) ==
  LET at == {i \in 1..Len(s) : s[i] = sep}
      nth(j) == CHOOSE i \in at : Cardinality({k \in at : k < i}) = j - 1
      n == Cardinality(at)
  IN [j \in 1..(n + 1) |->
        SubSeq(s, IF j = 1 THEN 1 ELSE nth(j - 1) + 1, IF j = n + 1 THEN Len(s) ELSE nth(j) - 1)]

\* String.prototype.substring(0, n), Array.prototype.slice(0, n)
Substring0(s, n) == SubSeq(s, 1, IF Len(s) < n THEN Len(s) ELSE n)

IsPrefix(p, s) == Len(p) <= Len(s) /\ SubSeq(s, 1, Len(p)) = p

\* s.replace(pat, "") : removes the first occurrence of pat
RemoveFirst(s, pat) ==
  LET at == {i \in 1..(Len(s) - Len(pat) + 1) : SubSeq(s, i, i + Len(pat) - 1) = pat} IN
  IF at = {} THEN s
  ELSE LET i == CHOOSE x \in at : \A y \in at : x <= y
       IN SubSeq(s, 1, i - 1) \o SubSeq(s, i + Len(pat), Len(s))

\* Number.prototype.toString() of an integer
RECURSIVE NatToStr(_)
NatToStr(n) == IF n < 10 THEN <<Digits[n + 1]>> ELSE NatToStr(n \div 10) \o <<Digits[(n % 10) + 1]>>

IntToStr(n) == IF n < 0 THEN <<"-">> \o NatToStr(0 - n) ELSE NatToStr(n)

\* Array.prototype.sort() of a list of texts (insertion sort; the order is total)
RECURSIVE InsertSorted(_, _)
InsertSorted(sorted, s) ==
  IF sorted = <<>> THEN <<s>>
  ELSE IF StrLess(s, Head(sorted)) THEN <<s>> \o sorted
  ELSE <<Head(sorted)>> \o InsertSorted(Tail(sorted), s)

RECURSIVE SortStrs(_)
SortStrs(strs) == IF strs = <<>> THEN <<>> ELSE InsertSorted(SortStrs(SubSeq(strs, 1, Len(strs) - 1)), strs[Len(strs)])

\* ---- Map / object as a list of entries in insertion order ----
MapHas(mp, k) == \E i \in 1..Len(mp) : mp[i].k = k
MapGet(mp, k) == IF MapHas(mp, k) THEN mp[CHOOSE i \in 1..Len(mp) : mp[i].k = k].v ELSE Undef
MapSet(mp, k, v) ==
  IF MapHas(mp, k) THEN [i \in 1..Len(mp) |-> IF mp[i].k = k THEN [k |-> k, v |-> v] ELSE mp[i]]
  ELSE Append(mp, [k |-> k, v |-> v])
MapKeys(mp) == [i \in 1..Len(mp) |-> mp[i].k]
MapKeySet(mp) == {mp[i].k : i \in 1..Len(mp)}

SeqToSet(s) == {s[i] : i \in 1..Len(s)}


(***************************************************************************)
(* Category tables (ifcToUsdConverter.js 49-121); a type code is named by  *)
(* its WebIFC constant.                                                    *)
(***************************************************************************)
CATEGORY_2_TYPE_DEFINITIONS ==
  {"IFCWALLTYPE", "IFCBEAMTYPE", "IFCBUILDINGELEMENTPROXYTYPE", "IFCSLABTYPE",
   "IFCWINDOWTYPE", "IFCDOORTYPE", "IFCFURNITURETYPETYPE"}

CATEGORY_4_MATERIALS_STYLING ==
  {"IFCMATERIAL", "IFCMATERIALCONSTITUENT", "IFCMATERIALCONSTITUENTSET",
   "IFCRELASSOCIATESMATERIAL", "IFCSTYLEDITEM", "IFCSURFACESTYLERENDERING",
   "IFCCOLOURRGBLIST", "IFCINDEXEDCOLOURMAP", "IFCPRESENTATIONLAYERASSIGNMENT",
   "IFCSURFACESTYLE"}

CATEGORY_5_GEOMETRY_SOURCE ==
  {"IFCCARTESIANPOINT", "IFCCARTESIANPOINTLIST3D", "IFCDIRECTION",
   "IFCAXIS2PLACEMENT3D", "IFCLOCALPLACEMENT", "IFCSHAPEREPRESENTATION",
   "IFCPRODUCTDEFINITIONSHAPE", "IFCPOLYGONALFACESET", "IFCINDEXEDPOLYGONALFACE",
   "IFCINDEXEDPOLYGONALFACEWITHVOIDS", "IFCMAPPEDITEM"}

CATEGORY_6_GLOBAL_CONTEXT ==
  {"IFCOWNERHISTORY", "IFCAPPLICATION", "IFCPERSON", "IFCORGANIZATION",
   "IFCPERSONANDORGANIZATION", "IFCUNITASSIGNMENT", "IFCSIUNIT",
   "IFCCONVERSIONBASEDUNIT", "IFCDERIVEDUNIT", "IFCDERIVEDUNITELEMENT",
   "IFCMEASUREWITHUNIT", "IFCDIMENSIONALEXPONENTS", "IFCMONETARYUNIT",
   "IFCCLASSIFICATIONREFERENCE"}

CATEGORY_RELATIONSHIPS == {"IFCRELAGGREGATES", "IFCRELCONTAINEDINSPATIALSTRUCTURE"}

(***************************************************************************)
(* The entity-graph provider (ifcParser): the files the model converts.    *)
(* An entity is [expressID, type, Name, GlobalId, NominalValue,            *)
(* Representation]; Name and GlobalId are texts (empty when the field is   *)
(* missing), NominalValue is [has, value], Representation an id or 0.      *)
(***************************************************************************)
\* a number is held as an integer count of 1e-5 units
Unit == 100000
Num(n) == n * Unit

Ids == 1..9
Physical == {1, 2, 3, 4}
Walls == {2, 3, 4}

T_IFC == <<"I","F","C">>
TypeNames ==
  [t \in {"IFCBUILDING", "IFCWALL", "IFCPROPERTYSINGLEVALUE", "IFCMATERIAL",
          "IFCOWNERHISTORY", "IFCWALLTYPE", "IFCCARTESIANPOINT", "IFCRELAGGREGATES",
          "IFCSURFACESTYLE", "IFCRELDEFINESBYTYPE"} |->
     CASE t = "IFCBUILDING" -> T_IFC \o <<"B","U","I","L","D","I","N","G">>
       [] t = "IFCWALL" -> T_IFC \o <<"W","A","L","L">>
       [] t = "IFCPROPERTYSINGLEVALUE" -> T_IFC \o <<"P","R","O","P","E","R","T","Y","S","I","N","G","L","E","V","A","L","U","E">>
       [] t = "IFCMATERIAL" -> T_IFC \o <<"M","A","T","E","R","I","A","L">>
       [] t = "IFCOWNERHISTORY" -> T_IFC \o <<"O","W","N","E","R","H","I","S","T","O","R","Y">>
       [] t = "IFCWALLTYPE" -> T_IFC \o <<"W","A","L","L","T","Y","P","E">>
       [] t = "IFCCARTESIANPOINT" -> T_IFC \o <<"C","A","R","T","E","S","I","A","N","P","O","I","N","T">>
       [] t = "IFCRELAGGREGATES" -> T_IFC \o <<"R","E","L","A","G","G","R","E","G","A","T","E","S">>
       [] t = "IFCSURFACESTYLE" -> T_IFC \o <<"S","U","R","F","A","C","E","S","T","Y","L","E">>
       [] t = "IFCRELDEFINESBYTYPE" -> T_IFC \o <<"R","E","L","D","E","F","I","N","E","S","B","Y","T","Y","P","E">>]

\* ifcParser.getTypeName(code)
getTypeName(type) == TypeNames[type]

NoValue == [has |-> FALSE, value |-> 0]
Value(n) == [has |-> TRUE, value |-> n]

Entity(id, type, name, nominal, rep) ==
  [expressID |-> id, type |-> type, Name |-> name, GlobalId |-> <<>>,
   NominalValue |-> nominal, Representation |-> rep]

AuxTypes ==
  {"IFCOWNERHISTORY", "IFCWALLTYPE", "IFCCARTESIANPOINT", "IFCRELAGGREGATES", "IFCRELDEFINESBYTYPE"}

\* a defines-by-type relationship: entity plus RelatedObjects and RelatingType
DefinesByType(id, related, relating) ==
  Entity(id, "IFCRELDEFINESBYTYPE", <<"A">>, NoValue, 0)
  @@ [RelatedObjects |-> related, RelatingType |-> relating]

\* the entities of a file; entity 8 is of the type aux.  When it is a
\* defines-by-type relationship it gives the walls 2 and 3 the wall type 9.
EntitiesOf(aux) ==
  [id \in Ids |->
     CASE id = 1 -> Entity(1, "IFCBUILDING", <<"B">>, NoValue, 0)
       [] id = 2 -> Entity(2, "IFCWALL", <<"W","2">>, NoValue, 8)
       [] id = 3 -> Entity(3, "IFCWALL", <<"W","3">>, NoValue, 0)
       [] id = 4 -> Entity(4, "IFCWALL", <<"W","4">>, NoValue, 0)
       [] id = 5 -> Entity(5, "IFCPROPERTYSINGLEVALUE", <<"P">>, Value(1), 0)
       [] id = 6 -> Entity(6, "IFCPROPERTYSINGLEVALUE", <<"P">>, Value(2), 0)
       [] id = 7 -> Entity(7, "IFCMATERIAL", <<"M">>, NoValue, 0)
       [] id = 8 -> IF aux = "IFCRELDEFINESBYTYPE" THEN DefinesByType(8, <<2, 3>>, 9)
                    ELSE Entity(8, aux, <<"A">>, NoValue, 0)
       [] id = 9 -> IF aux = "IFCRELDEFINESBYTYPE" THEN Entity(9, "IFCWALLTYPE", <<"T">>, NoValue, 0)
                    ELSE Entity(9, "IFCPROPERTYSINGLEVALUE", <<"Q">>, NoValue, 0)]

\* spatial structure: children of each node; node 0 is the structure's root object
Tree == [n \in 0..9 |-> CASE n = 0 -> <<1>> [] n = 1 -> <<2, 4>> [] n = 2 -> <<3>> [] OTHER -> <<>>]

\* property-set patterns of the three walls: the property entities each wall's set lists
PropertyPatterns ==
  { <<<<5>>, <<5>>, <<5>>>>,
    <<<<5>>, <<6>>, <<5>>>>,
    <<<<5>>, <<5>>, <<5, 9>>>>,
    <<<<5, 9>>, <<9, 6>>, <<5, 9>>>>,
    <<<<9>>, <<9>>, <<9>>>>,
    <<<<>>, <<>>, <<>>>> }

\* flat vertex arrays; GeomA and GeomC have the same geometry hash (00000000 3392b0fa)
GeomA == [verts |-> <<Num(33), Num(79), Num(1)>>, indices |-> <<>>]
GeomB == [verts |-> <<0, 0, 0, Num(1), 0, 0, 0, Num(1), 4>>, indices |-> <<0, 1, 2>>]
GeomC == [verts |-> <<Num(59), Num(66), Num(63)>>, indices |-> <<>>]
\* GeomB up to rounding to four decimals
GeomB2 == [verts |-> <<0, 0, 0, Num(1), 0, 0, 0, Num(1), 0>>, indices |-> <<0, 1, 2>>]
NoGeom == [verts |-> <<>>, indices |-> <<>>]

\* geometry patterns of the three walls
GeometryPatterns ==
  { <<NoGeom, NoGeom, NoGeom>>,
    <<GeomA, GeomA, GeomB>>,
    <<GeomA, GeomC, NoGeom>>,
    <<GeomB, NoGeom, NoGeom>>,
    <<GeomB, NoGeom, GeomB2>> }

\* which provider call fails, for which entity
FaultKinds == {"entity", "entityNull", "psets", "materials", "hasGeometry", "extractGeometry"}
NoFault == [kind |-> "none", id |-> 0]
Faults ==
  {NoFault} \cup {[kind |-> "entity", id |-> x] : x \in Ids}
            \cup {[kind |-> "entityNull", id |-> x] : x \in {2, 5}}
            \cup {[kind |-> k, id |-> x] : k \in {"psets", "materials", "hasGeometry", "extractGeometry"}, x \in Walls}

Ok(v) == [st |-> "ok", val |-> v]
Failed(st) == [st |-> st, val |-> 0]

PSet(props) == [Name |-> <<"S">>, HasProperties |-> props]

\* what the provider answers for one file
MakeModel(fault, props, geoms, aux, opts) ==
  [ all |-> [i \in 1..9 |-> i],
    ent |-> [id \in Ids |->
               IF fault.id = id /\ fault.kind = "entity" THEN Failed(Throw)
               ELSE IF fault.id = id /\ fault.kind = "entityNull" THEN Failed(Null)
               ELSE Ok(EntitiesOf(aux)[id])],
    psets |-> [id \in Ids |->
               IF fault.id = id /\ fault.kind = "psets" THEN Failed(Throw)
               ELSE IF id \in Walls THEN Ok(<<PSet(props[id - 1])>>)
               ELSE Ok(<<>>)],
    mats |-> [id \in Ids |->
               IF fault.id = id /\ fault.kind = "materials" THEN Failed(Throw)
               ELSE IF id \in Walls THEN Ok(<<EntitiesOf(aux)[7]>>)
               ELSE Ok(<<>>)],
    geomCheck |-> [id \in Ids |->
               IF fault.id = id /\ fault.kind = "hasGeometry" THEN Failed(Throw)
               ELSE IF id \in Walls THEN Ok(geoms[id - 1])
               ELSE Failed(Null)],
    geomFetch |-> [id \in Ids |->
               IF fault.id = id /\ fault.kind = "extractGeometry" THEN Failed(Throw)
               ELSE IF id \in Walls THEN Ok(geoms[id - 1])
               ELSE Failed(Null)],
    tree |-> Tree,
    options |-> opts,
    fault |-> fault ]

Options == [disableClasses : BOOLEAN, disableInstancing : BOOLEAN]
DefaultOptions == [disableClasses |-> FALSE, disableInstancing |-> FALSE]

BaseProps == <<<<5>>, <<6>>, <<5>>>>
UniformProps == <<<<5>>, <<5>>, <<5>>>>
BaseGeoms == <<GeomA, GeomA, GeomB>>

\* the file of a fault, with every provider call answering
Healthy == MakeModel(NoFault, UniformProps, BaseGeoms, "IFCOWNERHISTORY", DefaultOptions)

\* the files and options convert() is first called with
Inputs ==
  {MakeModel(f, UniformProps, BaseGeoms, "IFCOWNERHISTORY", DefaultOptions) : f \in Faults}
  \cup {MakeModel(NoFault, p, BaseGeoms, "IFCWALLTYPE", o) : p \in PropertyPatterns, o \in Options}
  \cup {MakeModel(NoFault, BaseProps, g, a, DefaultOptions) : g \in GeometryPatterns, a \in AuxTypes}

\* the files and options a later call on the same converter is given
LaterInputs ==
  { Healthy,
    MakeModel([kind |-> "entity", id |-> 2], UniformProps, BaseGeoms, "IFCOWNERHISTORY", DefaultOptions),
    MakeModel(NoFault, <<<<5>>, <<5>>, <<5, 9>>>>, BaseGeoms, "IFCWALLTYPE", DefaultOptions),
    MakeModel(NoFault, <<<<5, 9>>, <<9, 6>>, <<5, 9>>>>, BaseGeoms, "IFCWALLTYPE",
              [disableClasses |-> TRUE, disableInstancing |-> FALSE]),
    MakeModel(NoFault, BaseProps, <<GeomB, NoGeom, NoGeom>>, "IFCOWNERHISTORY", DefaultOptions) }

(***************************************************************************)
(* IFCToUSDConverter: utility functions                                    *)
(***************************************************************************)
\* usdContent = "": a document with nothing in it
EmptyDocument ==
  [ context |-> <<>>, unhandled |-> [present |-> FALSE, count |-> 0], classes |-> <<>>,
    resources |-> <<>>, materials |-> <<>>, prototypes |-> <<>>, prims |-> <<>> ]

\* constructor(): every table empty
NewConverter ==
  [ modelID |-> 0,
    usdContent |-> EmptyDocument,
    resources |-> <<>>,
    materials |-> <<>>,
    globalContext |-> <<>>,
    entityCache |-> <<>>,
    geometryCache |-> <<>>,
    typeRelations |-> <<>>,
    processedEntities |-> {},
    unhandledData |-> <<>>,
    usdClasses |-> <<>>,
    entityToClass |-> <<>>,
    propertySetSignatures |-> <<>>,
    entityToSignature |-> <<>>,
    geometryInstances |-> <<>>,
    materialIdToName |-> <<>>,
    \* locals of the running convert() call: its hierarchy and a pending exception
    hierarchyUSD |-> <<>>,
    threw |-> FALSE ]

\* getEntityName(entity): Name, else GlobalId, else null (the empty text)
getEntityName(entity) ==
  IF entity.Name # <<>> THEN entity.Name
  ELSE IF entity.GlobalId # <<>> THEN entity.GlobalId
  ELSE <<>>

\* sanitizeName(name): every character outside [a-zA-Z0-9_] becomes "_"
sanitizeName(name) ==
  [i \in 1..Len(name) |->
     IF InSeq(Upper, name[i]) \/ InSeq(Lower, name[i]) \/ InSeq(Digits, name[i]) \/ name[i] = "_"
     THEN name[i] ELSE "_"]

\* flattenEntity(entity): the fields that are plain or carry a .value
flattenEntity(entity) ==
  <<[k |-> "expressID", v |-> entity.expressID], [k |-> "type", v |-> entity.type]>>
  \o (IF entity.Name # <<>> THEN <<[k |-> "Name", v |-> entity.Name]>> ELSE <<>>)
  \o (IF entity.GlobalId # <<>> THEN <<[k |-> "GlobalId", v |-> entity.GlobalId]>> ELSE <<>>)
  \o (IF entity.NominalValue.has THEN <<[k |-> "NominalValue", v |-> entity.NominalValue.value]>> ELSE <<>>)
  \o (IF entity.Representation # 0 THEN <<[k |-> "Representation", v |-> entity.Representation]>> ELSE <<>>)

\* extractValue(valueObj)
PNull == [t |-> "null"]
PNum(n) == [t |-> "num", n |-> n]
\* the other values a property can hold: a string, a number given in 1e-5
\* units, a boolean, an array, an object with r, g and b
PStr(s) == [t |-> "str", s |-> s]
PReal(u) == [t |-> "real", u |-> u]
PBool(b) == [t |-> "bool", b |-> b]
PArray(items) == [t |-> "array", items |-> items]
PColor(r, g, b) == [t |-> "color", r |-> r, g |-> g, b |-> b]
\* typeof value === "number", Number.isInteger(value)
IsNumber(value) == value.t \in {"num", "real"}
isInteger(value) == value.t = "num" \/ (value.t = "real" /\ value.u % Unit = 0)
extractValue(valueObj) == IF valueObj.has THEN PNum(valueObj.value) ELSE PNull

\* isPhysicalOrSpatial(entityType): not of category 2, 4, 5 or 6
isPhysicalOrSpatial(entityType) ==
  entityType \notin (CATEGORY_2_TYPE_DEFINITIONS \cup CATEGORY_4_MATERIALS_STYLING
                     \cup CATEGORY_5_GEOMETRY_SOURCE \cup CATEGORY_6_GLOBAL_CONTEXT)

\* "Type_" / "Material_" + id
S_Type_ == <<"T","y","p","e","_">>
S_Material_ == <<"M","a","t","e","r","i","a","l","_">>
S_ifc_pset == <<"i","f","c",":","p","s","e","t",":">>
S_UnknownPSet == <<"U","n","k","n","o","w","n","P","S","e","t">>
S_UnknownProperty == <<"U","n","k","n","o","w","n","P","r","o","p","e","r","t","y">>
S_default == <<"d","e","f","a","u","l","t">>
S_Class_ == <<"_","C","l","a","s","s","_">>
S_BimBase == <<"_","B","i","m","B","a","s","e">>
S_Prototype_ == <<"P","r","o","t","o","t","y","p","e","_">>

(***************************************************************************)
(* Phase 1: gatherAllEntities                                              *)
(***************************************************************************)
\* gatherOne without its try/catch: the provider's exception leaves convert()
gatherOneUncaught(m, entityID) ==
  LET r == m.ent[entityID] IN
  IF r.st = Throw THEN [threw |-> TRUE, has |-> FALSE, entity |-> 0]
  ELSE IF r.st = Null THEN [threw |-> FALSE, has |-> FALSE, entity |-> 0]
  ELSE [threw |-> FALSE, has |-> TRUE, entity |-> r.val]

\* try { getEntityProperties } catch { warn }: [threw, has, entity]
gatherOne(m, entityID) ==
  LET r == m.ent[entityID] IN
  IF r.st = Throw THEN [threw |-> FALSE, has |-> FALSE, entity |-> 0]
  ELSE IF r.st = Null THEN [threw |-> FALSE, has |-> FALSE, entity |-> 0]
  ELSE [threw |-> FALSE, has |-> TRUE, entity |-> r.val]

RECURSIVE gatherFrom(_, _, _)
gatherFrom(c, m, i) ==
  IF i > Len(m.all) \/ c.threw THEN c
  ELSE LET r == gatherOne(m, m.all[i]) IN
       gatherFrom([c EXCEPT !.entityCache = IF r.has THEN MapSet(@, m.all[i], r.entity) ELSE @,
                            !.threw = r.threw], m, i + 1)

gatherAllEntities(c, m) == gatherFrom(c, m, 1)

(***************************************************************************)
(* Phase 2: categories 6, 2, 4, 5 and relationships                        *)
(***************************************************************************)
RECURSIVE cat6From(_, _)
cat6From(c, i) ==
  IF i > Len(c.entityCache) THEN c
  ELSE LET entityID == c.entityCache[i].k
           entity == c.entityCache[i].v
           typeName == getTypeName(entity.type)
           old == IF MapHas(c.globalContext, typeName) THEN MapGet(c.globalContext, typeName) ELSE <<>>
       IN IF entity.type \in CATEGORY_6_GLOBAL_CONTEXT
          THEN cat6From([c EXCEPT !.processedEntities = @ \cup {entityID},
                                  !.globalContext = MapSet(@, typeName,
                                       Append(old, [id |-> entityID, data |-> flattenEntity(entity)]))], i + 1)
          ELSE cat6From(c, i + 1)

processCategory6_GlobalContext(c) == cat6From(c, 1)

RECURSIVE cat2From(_, _)
cat2From(c, i) ==
  IF i > Len(c.entityCache) THEN c
  ELSE LET entityID == c.entityCache[i].k
           entity == c.entityCache[i].v
           name == IF getEntityName(entity) # <<>> THEN getEntityName(entity) ELSE S_Type_ \o IntToStr(entityID)
       IN IF entity.type \in CATEGORY_2_TYPE_DEFINITIONS
          THEN cat2From([c EXCEPT !.processedEntities = @ \cup {entityID},
                                  !.resources = MapSet(@, name,
                                       [id |-> entityID, type |-> getTypeName(entity.type),
                                        data |-> flattenEntity(entity)])], i + 1)
          ELSE cat2From(c, i + 1)

processCategory2_TypeDefinitions(c) == cat2From(c, 1)

\* createMaterialSignature(materialData): the entries other than Name, GlobalId,
\* expressID and type, by sorted key (the text JSON.stringify makes of them)
SortedKeys == <<"NominalValue", "Representation">>
createMaterialSignature(materialData) ==
  LET relevant(k) == SelectSeq(materialData, LAMBDA e : e.k = k) IN
  relevant(SortedKeys[1]) \o relevant(SortedKeys[2])

RECURSIVE cat4From(_, _, _)
cat4From(c, materialsBySignature, i) ==
  IF i > Len(c.entityCache) THEN c
  ELSE LET entityID == c.entityCache[i].k
           entity == c.entityCache[i].v
           flatData == flattenEntity(entity)
           signature == createMaterialSignature(flatData)
           name == IF getEntityName(entity) # <<>> THEN getEntityName(entity) ELSE S_Material_ \o IntToStr(entityID)
       IN IF entity.type \in CATEGORY_4_MATERIALS_STYLING
          THEN IF ~MapHas(materialsBySignature, signature)
               THEN cat4From([c EXCEPT !.processedEntities = @ \cup {entityID},
                                       !.materials = MapSet(@, name,
                                            [id |-> entityID, type |-> getTypeName(entity.type), data |-> flatData])],
                             MapSet(materialsBySignature, signature, name), i + 1)
               ELSE cat4From([c EXCEPT !.processedEntities = @ \cup {entityID},
                                       !.materialIdToName = MapSet(@, entityID, MapGet(materialsBySignature, signature))],
                             materialsBySignature, i + 1)
          ELSE cat4From(c, materialsBySignature, i + 1)

processCategory4_Materials(c) == cat4From(c, <<>>, 1)

RECURSIVE cat5From(_, _)
cat5From(c, i) ==
  IF i > Len(c.entityCache) THEN c
  ELSE LET entityID == c.entityCache[i].k
           entity == c.entityCache[i].v
       IN IF entity.type \in CATEGORY_5_GEOMETRY_SOURCE
          THEN cat5From([c EXCEPT !.processedEntities = @ \cup {entityID},
                                  !.geometryCache = MapSet(@, entityID,
                                       [type |-> getTypeName(entity.type), data |-> flattenEntity(entity)])], i + 1)
          ELSE cat5From(c, i + 1)

processCategory5_Geometry(c) == cat5From(c, 1)

\* this.typeRelations.set(obj.value, relatingType.value) for every related object
RECURSIVE storeTypeRelations(_, _, _)
storeTypeRelations(typeRelations, relatedObjects, relatingType) ==
  IF relatedObjects = <<>> THEN typeRelations
  ELSE storeTypeRelations(IF Head(relatedObjects) # 0
                          THEN MapSet(typeRelations, Head(relatedObjects), relatingType)
                          ELSE typeRelations,
                          Tail(relatedObjects), relatingType)

\* the IFCRELDEFINESBYTYPE branch is inside the test on CATEGORY_RELATIONSHIPS
RECURSIVE relFrom(_, _)
relFrom(c, i) ==
  IF i > Len(c.entityCache) THEN c
  ELSE LET entityID == c.entityCache[i].k
           entity == c.entityCache[i].v
       IN IF entity.type \in CATEGORY_RELATIONSHIPS
          THEN relFrom([c EXCEPT !.processedEntities = @ \cup {entityID},
                                 !.typeRelations =
                                    IF entity.type = "IFCRELDEFINESBYTYPE"
                                    THEN storeTypeRelations(@, entity.RelatedObjects, entity.RelatingType)
                                    ELSE @], i + 1)
          ELSE relFrom(c, i + 1)

processCategoryRelationships(c) == relFrom(c, 1)

(***************************************************************************)
(* Category 3: getPropertiesForEntity                                      *)
(***************************************************************************)
\* the (psetName, property id) pairs of a list of property sets, in order
RECURSIVE psetPairs(_)
psetPairs(propertySets) ==
  IF propertySets = <<>> THEN <<>>
  ELSE LET pset == Head(propertySets)
           psetName == IF pset.Name # <<>> THEN pset.Name ELSE S_UnknownPSet
       IN [j \in 1..Len(pset.HasProperties) |-> [pset |-> psetName, prop |-> pset.HasProperties[j]]]
          \o psetPairs(Tail(propertySets))

RECURSIVE propsFrom(_, _, _, _)
propsFrom(c, pairs, i, acc) ==
  IF i > Len(pairs) THEN acc
  ELSE IF MapHas(c.entityCache, pairs[i].prop)
  THEN LET propData == MapGet(c.entityCache, pairs[i].prop)
           propName == IF propData.Name # <<>> THEN propData.Name ELSE S_UnknownProperty
           propValue == IF propData.NominalValue.has THEN extractValue(propData.NominalValue) ELSE PNull
           attrName == S_ifc_pset \o pairs[i].pset \o <<":">> \o propName
       IN propsFrom(c, pairs, i + 1,
                    [acc EXCEPT !.properties = MapSet(@, attrName, propValue),
                                !.touched = @ \cup {pairs[i].prop}])
  ELSE propsFrom(c, pairs, i + 1, acc)

\* try { getPropertySets ...; getQuantitiesForEntity } catch { warn }; return properties
getPropertiesForEntity(c, m, entityID) ==
  LET r == m.psets[entityID]
      empty == [threw |-> FALSE, properties |-> <<>>, touched |-> {}]
  IN IF r.st = Throw THEN empty
     ELSE propsFrom(c, psetPairs(r.val), 1, empty)

(***************************************************************************)
(* PropertySetAnalyzer                                                     *)
(***************************************************************************)
\* createSignature(typeName, properties): type + "|" + sorted keys joined by ","
createSignature(typeName, properties) ==
  typeName \o <<"|">> \o Join(SortStrs(MapKeys(properties)), <<",">>)

\* analyzeEntities(entities), on the analyzer's two maps [sigs, toSig]
RECURSIVE analyzeEntities(_, _, _)
analyzeEntities(a, entities, i) ==
  IF i > Len(entities) THEN a
  ELSE LET entity == entities[i]
           signature == createSignature(entity.typeName, entity.properties)
           data == IF MapHas(a.sigs, signature) THEN MapGet(a.sigs, signature)
                   ELSE [entities |-> <<>>, count |-> 0, typeName |-> entity.typeName,
                         properties |-> entity.properties]
       IN analyzeEntities(
            [sigs |-> MapSet(a.sigs, signature,
                        [data EXCEPT !.entities = Append(@, entity.entityID), !.count = @ + 1]),
             toSig |-> MapSet(a.toSig, entity.entityID, signature)],
            entities, i + 1)

\* identifyClassCandidates(minInstances): the groups with count >= minInstances, in map order
identifyClassCandidates(sigs, minInstances) ==
  SelectSeq(sigs, LAMBDA e : e.v.count >= minInstances)

(***************************************************************************)
(* Phase 1.5: analyzeAndCreateClasses                                      *)
(***************************************************************************)
\* minimum passed by the converter: identifyClassCandidates(3)
MinInstances == 3

\* generateClassName(signature)
generateClassName(signature) ==
  LET parts == Split(signature, "|")
      ifcType == RemoveFirst(parts[1], T_IFC)
      propsHash == IF Len(parts) >= 2 /\ parts[2] # <<>> THEN Substring0(parts[2], 8) ELSE S_default
  IN S_Class_ \o ifcType \o <<"_">> \o propsHash

\* step 1: the physical/spatial entities of the cache with their properties
RECURSIVE collectPhysical(_, _, _, _)
collectPhysical(c, m, i, acc) ==
  IF i > Len(c.entityCache) \/ acc.threw THEN acc
  ELSE LET entityID == c.entityCache[i].k
           entity == c.entityCache[i].v
           r == getPropertiesForEntity(c, m, entityID)
       IN IF isPhysicalOrSpatial(entity.type)
          THEN collectPhysical(c, m, i + 1,
                 [threw |-> r.threw,
                  list |-> Append(acc.list, [entityID |-> entityID,
                                             typeName |-> getTypeName(entity.type),
                                             properties |-> r.properties]),
                  touched |-> acc.touched \cup r.touched])
          ELSE collectPhysical(c, m, i + 1, acc)

\* the keys of the signature for which the first entity has a value
commonPropsOf(signature, firstEntityID, physicalEntities) ==
  LET parts == Split(signature, "|")
      propsStr == IF Len(parts) >= 2 THEN parts[2] ELSE <<>>
      propKeys == IF propsStr # <<>> THEN Split(propsStr, ",") ELSE <<>>
      found == SelectSeq(physicalEntities, LAMBDA e : e.entityID = firstEntityID)
      keep == IF found = <<>> THEN <<>>
              ELSE SelectSeq(propKeys, LAMBDA key : MapHas(found[1].properties, key))
  IN [j \in 1..Len(keep) |-> [k |-> keep[j], v |-> MapGet(found[1].properties, keep[j])]]

RECURSIVE mapEntitiesToClass(_, _, _)
mapEntitiesToClass(entityToClass, entities, className) ==
  IF entities = <<>> THEN entityToClass
  ELSE mapEntitiesToClass(MapSet(entityToClass, Head(entities), className), Tail(entities), className)

\* a JavaScript object keeps a key written twice once, with the later value:
\* usdClasses[className] = {...}
RECURSIVE createClasses(_, _, _, _)
createClasses(c, classCandidates, physicalEntities, i) ==
  IF i > Len(classCandidates) THEN c
  ELSE LET signature == classCandidates[i].k
           signatureData == classCandidates[i].v
           className == generateClassName(signature)
           commonProps == commonPropsOf(signature, signatureData.entities[1], physicalEntities)
       IN createClasses(
            [c EXCEPT !.usdClasses = MapSet(@, className,
                          [ifcType |-> signatureData.typeName, properties |-> commonProps,
                           inherits |-> <<"/">> \o S_BimBase]),
                      !.entityToClass = mapEntitiesToClass(@, signatureData.entities, className)],
            classCandidates, physicalEntities, i + 1)

analyzeAndCreateClasses(c, m) ==
  LET phys == collectPhysical(c, m, 1, [threw |-> FALSE, list |-> <<>>, touched |-> {}])
      a == analyzeEntities([sigs |-> c.propertySetSignatures, toSig |-> c.entityToSignature], phys.list, 1)
      classCandidates == identifyClassCandidates(a.sigs, MinInstances)
      c1 == [c EXCEPT !.processedEntities = @ \cup phys.touched,
                      !.propertySetSignatures = a.sigs,
                      !.entityToSignature = a.toSig,
                      !.usdClasses = MapSet(@, S_BimBase,
                           [ifcType |-> <<"I","F","C","_","B","A","S","E">>, properties |-> <<>>, inherits |-> <<>>])]
  IN IF phys.threw THEN [c EXCEPT !.processedEntities = @ \cup phys.touched, !.threw = TRUE]
     ELSE createClasses(c1, classCandidates, phys.list, 1)

(***************************************************************************)
(* GeometryHasher (geometryHasher.js).  Coordinates are counts of 1e-5     *)
(* units; the 32-bit running hash is held as its 16-bit halves [hi, lo].   *)
(***************************************************************************)
\* the n low bits of v, most significant first
RECURSIVE BitsOf(_, _)
BitsOf(v, n) == IF n = 0 THEN <<>> ELSE Append(BitsOf(v \div 2, n - 1), v % 2)

\* binary digits of v > 0 without leading zeros
RECURSIVE BinaryOf(_)
BinaryOf(v) == IF v = 0 THEN <<>> ELSE Append(BinaryOf(v \div 2), v % 2)

RECURSIVE BitsToNat(_)
BitsToNat(bits) == IF bits = <<>> THEN 0 ELSE 2 * BitsToNat(SubSeq(bits, 1, Len(bits) - 1)) + bits[Len(bits)]

\* remainder of f * 8192^n by 10000: what is left of f / 10000 after 13 n binary digits
FractionRest(f, n) ==
  LET r1 == (f * 8192) % 10000
      r2 == (r1 * 8192) % 10000
      r3 == (r2 * 8192) % 10000
      r4 == (r3 * 8192) % 10000
      r5 == (r4 * 8192) % 10000
      r6 == (r5 * 8192) % 10000
  IN <<f, r1, r2, r3, r4, r5, r6>>[n + 1]

\* the first 78 binary digits of the fraction f / 10000, and the remainder after them
FractionBits(f) ==
  [bits |-> BitsOf((FractionRest(f, 0) * 8192) \div 10000, 13)
            \o BitsOf((FractionRest(f, 1) * 8192) \div 10000, 13)
            \o BitsOf((FractionRest(f, 2) * 8192) \div 10000, 13)
            \o BitsOf((FractionRest(f, 3) * 8192) \div 10000, 13)
            \o BitsOf((FractionRest(f, 4) * 8192) \div 10000, 13)
            \o BitsOf((FractionRest(f, 5) * 8192) \div 10000, 13),
   rest |-> FractionRest(f, 6)]

\* bits + 1, with the carry out
Increment(bits) ==
  LET zeros == {i \in 1..Len(bits) : bits[i] = 0} IN
  IF zeros = {} THEN [bits |-> [i \in 1..Len(bits) |-> 0], carry |-> 1]
  ELSE LET j == CHOOSE i \in zeros : \A k \in zeros : k <= i IN
       [bits |-> [i \in 1..Len(bits) |-> IF i < j THEN bits[i] ELSE IF i = j THEN 1 ELSE 0], carry |-> 0]

\* Math.round(num * 10000): k (1e-5 units) to the nearest 1e-4, halves upwards
Round4(k) == (k + 5) \div 10

\* sign, 11 exponent bits, 52 mantissa bits
PackDouble(sign, e, mant) == <<sign>> \o BitsOf(1023 + e, 11) \o mant

\* round the binary digits after the leading 1 to 52, to nearest, ties to even
RoundDouble(sign, e, stream, rest) ==
  LET mant == SubSeq(stream, 1, 52)
      sticky == rest # 0 \/ \E i \in 54..Len(stream) : stream[i] = 1
      up == stream[53] = 1 /\ (sticky \/ mant[52] = 1)
      inc == Increment(mant)
  IN IF up THEN PackDouble(sign, IF inc.carry = 1 THEN e + 1 ELSE e, inc.bits)
     ELSE PackDouble(sign, e, mant)

\* the double of the binary number digits with intLen digits before the point
Normalize(sign, intLen, digits, rest) ==
  LET first == CHOOSE i \in 1..Len(digits) : digits[i] = 1 /\ \A j \in 1..(i - 1) : digits[j] = 0
  IN RoundDouble(sign, intLen - first, SubSeq(digits, first + 1, Len(digits)), rest)

NormalizeParts(sign, ibits, fr) == Normalize(sign, Len(ibits), ibits \o fr.bits, fr.rest)

\* the IEEE-754 double nearest to r / 10000 (r >= 0), as 64 bits
DoubleBits(r, negative) ==
  IF r = 0 THEN <<IF negative THEN 1 ELSE 0>> \o [i \in 1..63 |-> 0]
  ELSE NormalizeParts(IF negative THEN 1 ELSE 0, BinaryOf(r \div 10000), FractionBits(r % 10000))

\* the 8 bytes of 64 bits, little endian
BytesOf(bits) == [i \in 1..8 |-> BitsToNat(SubSeq(bits, 8 * (8 - i) + 1, 8 * (8 - i) + 8))]

\* numberToBytes(num): the 8 bytes of the double, little endian
numberToBytes(r, negative) == BytesOf(DoubleBits(r, negative))

\* a ^ b on bytes
RECURSIVE XorN(_, _, _)
XorN(a, b, n) == IF n = 0 THEN 0 ELSE 2 * XorN(a \div 2, b \div 2, n - 1) + ((a + b) % 2)

FNV_OFFSET_BASIS == [hi |-> 33052, lo |-> 40389]
FNV_PRIME == [hi |-> 256, lo |-> 403]

\* the step without the mask: the product keeps its bits above 2^32
hashByteUnmasked(hash, byte, prime) ==
  LET lo == hash.lo - (hash.lo % 256) + XorN(hash.lo % 256, byte, 8)
      low == lo * prime.lo
  IN [hi |-> hash.hi * prime.lo + lo * prime.hi + (low \div 65536), lo |-> low % 65536]

\* hash = ((hash ^ byte) * prime) & 0xffffffff
hashByte(hash, byte, prime) ==
  LET lo == hash.lo - (hash.lo % 256) + XorN(hash.lo % 256, byte, 8)
      low == lo * prime.lo
  IN [hi |-> (hash.hi * prime.lo + lo * prime.hi + (low \div 65536)) % 65536, lo |-> low % 65536]

\* hash & 0xffffffffn keeps the running hash an unsigned 32-bit value
IsUint32(hash) == hash.hi \in 0..65535 /\ hash.lo \in 0..65535

RECURSIVE hashBytes(_, _, _)
hashBytes(hash, bytes, prime) ==
  IF ~IsUint32(hash) \/ bytes = <<>> THEN hash
  ELSE hashBytes(hashByte(hash, Head(bytes), prime), Tail(bytes), prime)

\* hashNumber(hash, num, prime): round to 4 decimals, hash the 8 bytes
hashNumber(hash, k, prime) ==
  LET rounded == Round4(k) IN
  hashBytes(hash, numberToBytes(IF rounded < 0 THEN 0 - rounded ELSE rounded, k < 0), prime)

\* variant of the sampling loops that reads the element after the sampled one
RECURSIVE hashTriplesShifted(_, _, _, _, _)
hashTriplesShifted(hash, triples, i, step, prime) ==
  IF ~IsUint32(hash) \/ i > Len(triples) THEN hash
  ELSE hashTriplesShifted(
         hashNumber(hashNumber(hashNumber(hash, triples[IF i < Len(triples) THEN i + 1 ELSE i][1], prime),
                               triples[IF i < Len(triples) THEN i + 1 ELSE i][2], prime),
                    triples[IF i < Len(triples) THEN i + 1 ELSE i][3], prime),
         triples, i + step, step, prime)

RECURSIVE hashTriples(_, _, _, _, _)
hashTriples(hash, triples, i, step, prime) ==
  IF ~IsUint32(hash) \/ i > Len(triples) THEN hash
  ELSE hashTriples(hashNumber(hashNumber(hashNumber(hash, triples[i][1], prime), triples[i][2], prime),
                              triples[i][3], prime),
                   triples, i + step, step, prime)

HexDigits == Digits \o <<"a","b","c","d","e","f">>
RECURSIVE HexOf(_)
HexOf(v) == IF v < 16 THEN <<HexDigits[v + 1]>> ELSE Append(HexOf(v \div 16), HexDigits[(v % 16) + 1])
PadStart(s, n, ch) == [i \in 1..(Max(n, Len(s)) - Len(s)) |-> ch] \o s

\* hash.toString(16).padStart(16, "0")
digest(hash) ==
  PadStart(IF hash.hi = 0 THEN HexOf(hash.lo) ELSE HexOf(hash.hi) \o PadStart(HexOf(hash.lo), 4, "0"), 16, "0")

\* hashGeometry(points, faces)
hashGeometry(points, faces) ==
  digest(
    hashTriples(
      hashTriples(
        hashNumber(hashNumber(FNV_OFFSET_BASIS, Num(Len(points)), FNV_PRIME), Num(Len(faces)), FNV_PRIME),
        points, 1, Max(1, Len(points) \div 100), FNV_PRIME),
      faces, 1, Max(1, Len(faces) \div 100), FNV_PRIME))

Abs(x) == IF x < 0 THEN 0 - x ELSE x

\* default tolerance 0.0001, in 1e-5 units
Tolerance == 10

\* geometriesMatch(geom1, geom2, tolerance)
geometriesMatch(geom1, geom2, tolerance) ==
  /\ Len(geom1.points) = Len(geom2.points)
  /\ Len(geom1.faces) = Len(geom2.faces)
  /\ \A i \in 1..Len(geom1.points) : \A j \in 1..3 :
        ~(Abs(geom1.points[i][j] - geom2.points[i][j]) > tolerance)
  /\ \A i \in 1..Len(geom1.faces) : \A j \in 1..3 : geom1.faces[i][j] = geom2.faces[i][j]

(***************************************************************************)
(* Material, geometry presence and geometry of one entity                  *)
(***************************************************************************)
\* try { getMaterials ... } catch { }: the sanitized material name or null (empty)
getMaterialForEntity(c, m, entityID) ==
  LET r == m.mats[entityID] IN
  IF r.st = Throw THEN [threw |-> FALSE, name |-> <<>>]
  ELSE IF Len(r.val) > 0
  THEN LET materialID == r.val[1].expressID
           materialName == IF getEntityName(r.val[1]) # <<>> THEN getEntityName(r.val[1])
                           ELSE S_Material_ \o IntToStr(materialID)
       IN IF MapHas(c.materialIdToName, materialID)
          THEN [threw |-> FALSE, name |-> sanitizeName(MapGet(c.materialIdToName, materialID))]
          ELSE [threw |-> FALSE, name |-> sanitizeName(materialName)]
  ELSE [threw |-> FALSE, name |-> <<>>]

\* try { geometry && geometry.GetVertexDataSize() > 0 } catch { return false }
hasGeometry(m, entityID) ==
  LET r == m.geomCheck[entityID] IN
  IF r.st = Throw THEN [threw |-> FALSE, value |-> FALSE]
  ELSE IF r.st = Null THEN [threw |-> FALSE, value |-> FALSE]
  ELSE [threw |-> FALSE, value |-> Len(r.val.verts) > 0]

\* a flat array in triples
Triples(flat) == [i \in 1..(Len(flat) \div 3) |-> <<flat[3 * i - 2], flat[3 * i - 1], flat[3 * i]>>]

S_Unknown == <<"U","n","k","n","o","w","n">>
S_Tessellation == <<"T","e","s","s","e","l","l","a","t","i","o","n">>
NoGeometry == [has |-> FALSE, points |-> <<>>, faces |-> <<>>,
               metadata |-> [geometrySource |-> <<>>, representationType |-> <<>>]]

\* try { ... } catch { warn; return null }
extractGeometry(c, m, entityID) ==
  LET r == m.geomFetch[entityID]
      repID == IF MapHas(c.entityCache, entityID) THEN MapGet(c.entityCache, entityID).Representation ELSE 0
      known == repID # 0 /\ MapHas(c.geometryCache, repID)
  IN IF r.st = Throw THEN [threw |-> FALSE, geometry |-> NoGeometry]
     ELSE IF r.st = Null THEN [threw |-> FALSE, geometry |-> NoGeometry]
     ELSE [threw |-> FALSE,
           geometry |-> [has |-> TRUE,
                         points |-> Triples(r.val.verts),
                         faces |-> [i \in 1..(Len(r.val.indices) \div 3) |->
                                      <<Num(r.val.indices[3 * i - 2]), Num(r.val.indices[3 * i - 1]),
                                        Num(r.val.indices[3 * i])>>],
                         metadata |-> [geometrySource |-> IF known THEN MapGet(c.geometryCache, repID).type ELSE S_Unknown,
                                       representationType |-> S_Tessellation]]]

(***************************************************************************)
(* Phase 2.5: detectGeometryInstances                                      *)
(***************************************************************************)
\* first loop: geometryByHash, hash -> list of {entityID, geometry}
\* geometryByHash.get(hash).push({entityID, geometry}), the list made first if missing
pushByHash(byHash, hash, entry) ==
  MapSet(byHash, hash, Append(IF MapHas(byHash, hash) THEN MapGet(byHash, hash) ELSE <<>>, entry))

RECURSIVE hashAll(_, _, _, _)
hashAll(c, m, i, acc) ==
  IF acc.threw \/ i > Len(c.entityCache) THEN acc
  ELSE LET entityID == c.entityCache[i].k
           hg == hasGeometry(m, entityID)
           eg == extractGeometry(c, m, entityID)
       IN IF hg.threw THEN [acc EXCEPT !.threw = TRUE]
          ELSE IF ~hg.value THEN hashAll(c, m, i + 1, acc)
          ELSE IF eg.threw THEN [acc EXCEPT !.threw = TRUE]
          ELSE IF ~eg.geometry.has THEN hashAll(c, m, i + 1, acc)
          ELSE hashAll(c, m, i + 1,
                 [acc EXCEPT !.byHash = pushByHash(@, hashGeometry(eg.geometry.points, eg.geometry.faces),
                                                   [entityID |-> entityID, geometry |-> eg.geometry])])

\* entries.length >= 2
IsInstanceGroup(entries) == Len(entries) >= 2

\* second loop: a group per hash that IsInstanceGroup, named Prototype_<k>
RECURSIVE groupsFrom(_, _, _, _)
groupsFrom(geometryInstances, byHash, i, prototypeIndex) ==
  IF i > Len(byHash) THEN geometryInstances
  ELSE LET entries == byHash[i].v IN
       IF IsInstanceGroup(entries)
       THEN groupsFrom(MapSet(geometryInstances, byHash[i].k,
                         [prototype |-> entries[1],
                          instances |-> [j \in 1..Len(entries) |-> entries[j].entityID],
                          prototypeName |-> S_Prototype_ \o IntToStr(prototypeIndex)]),
                       byHash, i + 1, prototypeIndex + 1)
       ELSE groupsFrom(geometryInstances, byHash, i + 1, prototypeIndex)

instancesFrom(c, hashed) ==
  IF hashed.threw THEN [c EXCEPT !.threw = TRUE]
  ELSE [c EXCEPT !.geometryInstances = groupsFrom(@, hashed.byHash, 1, 0)]

detectGeometryInstances(c, m) ==
  instancesFrom(c, hashAll(c, m, 1, [threw |-> FALSE, byHash |-> <<>>]))

(***************************************************************************)
(* Phase 3: processCategory1_PhysicalSpatial                               *)
(***************************************************************************)
\* processNode(node) and its loop over node.children; a result is
\* [threw, nodes (the usdNode, or none when the entity is not cached), touched]
RECURSIVE processNode(_, _, _)
RECURSIVE processChildren(_, _, _, _)
processNode(c, m, entityID) ==
  IF ~MapHas(c.entityCache, entityID) THEN [threw |-> FALSE, nodes |-> <<>>, touched |-> {}]
  ELSE
    LET entity == MapGet(c.entityCache, entityID)
        typeName == getTypeName(entity.type)
        name == IF getEntityName(entity) # <<>> THEN getEntityName(entity)
                ELSE typeName \o <<"_">> \o IntToStr(entityID)
        props == getPropertiesForEntity(c, m, entityID)
        mat == getMaterialForEntity(c, m, entityID)
        typeRef == IF MapHas(c.typeRelations, entityID) THEN MapGet(c.typeRelations, entityID) ELSE 0
        hg == hasGeometry(m, entityID)
        eg == IF hg.value THEN extractGeometry(c, m, entityID) ELSE [threw |-> FALSE, geometry |-> NoGeometry]
        kids == processChildren(c, m, m.tree[entityID], 1)
        usdNode == [name |-> sanitizeName(name),
                    type |-> IF hg.value THEN "Mesh" ELSE "Xform",
                    ifcType |-> typeName,
                    ifcID |-> entityID,
                    properties |-> props.properties,
                    materialBinding |-> mat.name,
                    typeReference |-> typeRef,
                    geometry |-> eg.geometry,
                    children |-> kids.nodes]
    IN IF props.threw \/ mat.threw \/ hg.threw \/ eg.threw \/ kids.threw
       THEN [threw |-> TRUE, nodes |-> <<>>, touched |-> props.touched]
       ELSE [threw |-> FALSE, nodes |-> <<usdNode>>,
             touched |-> props.touched \cup kids.touched \cup {entityID}]

processChildren(c, m, children, i) ==
  IF i > Len(children) THEN [threw |-> FALSE, nodes |-> <<>>, touched |-> {}]
  ELSE LET first == processNode(c, m, children[i])
           rest == processChildren(c, m, children, i + 1)
       IN IF first.threw THEN first
          ELSE [threw |-> rest.threw, nodes |-> first.nodes \o rest.nodes,
                touched |-> first.touched \cup rest.touched]

\* checkForUnprocessedEntities(): the cached entities not in processedEntities
checkForUnprocessedEntities(c) ==
  LET missing == SelectSeq(c.entityCache, LAMBDA e : e.k \notin c.processedEntities)
      unprocessed == [i \in 1..Len(missing) |->
                        [id |-> missing[i].k, type |-> getTypeName(missing[i].v.type),
                         data |-> flattenEntity(missing[i].v)]]
  IN IF Len(unprocessed) > 0 THEN [c EXCEPT !.unhandledData = MapSet(@, "entities", unprocessed)]
     ELSE c

\* walks spatialStructure.children, then checks for unprocessed entities;
\* the returned hierarchy is the local hierarchyUSD of convert()
processCategory1_PhysicalSpatial(c, m) ==
  LET walk == processChildren(c, m, m.tree[0], 1)
      c1 == [c EXCEPT !.processedEntities = @ \cup walk.touched] IN
  IF walk.threw THEN [c1 EXCEPT !.threw = TRUE]
  ELSE [checkForUnprocessedEntities(c1) EXCEPT !.hierarchyUSD = walk.nodes]

(***************************************************************************)
(* Phase 4: generateUSDFile.  The document is kept as its parts: each      *)
(* scope is the list of the blocks the code writes, each block the values   *)
(* it interpolates.                                                        *)
(***************************************************************************)
Quote(str) == <<"\"">> \o str \o <<"\"">>

\* toUSDValue(value) / inferUSDType(value) of a property value
toUSDValue(value) == IF value.t = "num" THEN IntToStr(value.n) ELSE Quote(<<"n","u","l","l">>)
inferUSDType(value) ==
  IF value.t = "str" THEN "string"
  ELSE IF IsNumber(value) THEN (IF isInteger(value) THEN "int" ELSE "double")
  ELSE IF value.t = "bool" THEN "bool"
  ELSE IF value.t = "array" THEN "string[]"
  ELSE "string"

\* toUSDValue of a flattened entity field
dataValue(e) ==
  IF e.k \in {"Name", "GlobalId"} THEN Quote(e.v)
  ELSE IF e.k = "type" THEN Quote(getTypeName(e.v))
  ELSE IntToStr(e.v)

attributesOf(properties) ==
  [i \in 1..Len(properties) |->
     [type |-> inferUSDType(properties[i].v), key |-> properties[i].k, value |-> toUSDValue(properties[i].v)]]

\* generateContextMetadata()
globalContextTypes ==
  { T_IFC \o <<"U","N","I","T","A","S","S","I","G","N","M","E","N","T">>,
    T_IFC \o <<"O","W","N","E","R","H","I","S","T","O","R","Y">>,
    T_IFC \o <<"P","R","O","J","E","C","T">> }
generateContextMetadata(c) ==
  LET shown == SelectSeq(c.globalContext, LAMBDA e : e.k \in globalContextTypes) IN
  [i \in 1..Len(shown) |->
     [typeName |-> shown[i].k,
      entities |-> [j \in 1..Len(shown[i].v) |->
                      [id |-> shown[i].v[j].id,
                       Name |-> LET nm == SelectSeq(shown[i].v[j].data, LAMBDA d : d.k = "Name")
                                IN IF nm = <<>> THEN <<>> ELSE Quote(nm[1].v)]]]]

\* generateUnhandledDataMetadata(): nothing, or the count of unhandledData.entities
generateUnhandledDataMetadata(c) ==
  IF Len(c.unhandledData) = 0 THEN [present |-> FALSE, count |-> 0]
  ELSE [present |-> TRUE,
        count |-> IF MapHas(c.unhandledData, "entities") THEN Len(MapGet(c.unhandledData, "entities")) ELSE 0]

\* generateClassScope(): _BimBase first, then the other classes
generateClassScope(c) ==
  LET block(e) == [name |-> e.k, inherits |-> e.v.inherits, ifcType |-> e.v.ifcType,
                   attributes |-> attributesOf(e.v.properties)]
      base == SelectSeq(c.usdClasses, LAMBDA e : e.k = S_BimBase)
      others == SelectSeq(c.usdClasses, LAMBDA e : e.k # S_BimBase)
  IN [i \in 1..Len(base) |-> block(base[i])] \o [i \in 1..Len(others) |-> block(others[i])]

\* generateResourcesScope() / generateMaterialsScope()
generateScope(table) ==
  [i \in 1..Len(table) |->
     [name |-> table[i].k, type |-> table[i].v.type, id |-> table[i].v.id,
      data |-> [j \in 1..Len(table[i].v.data) |->
                  [key |-> table[i].v.data[j].k, value |-> dataValue(table[i].v.data[j])]]]]

\* generatePrototypesScope()
generatePrototypesScope(c) ==
  [i \in 1..Len(c.geometryInstances) |->
     [name |-> c.geometryInstances[i].v.prototypeName,
      points |-> c.geometryInstances[i].v.prototype.geometry.points,
      faces |-> c.geometryInstances[i].v.prototype.geometry.faces]]

\* emittedProperties without the test on the class's keys
emittedPropertiesUnfiltered(c, node) ==
  SelectSeq(node.properties, LAMBDA e : e.v.t # "null")

\* the property attributes generateHierarchy writes for a node:
\* with a class, the non-null properties whose key the class does not have;
\* without, the non-null properties
emittedProperties(c, node) ==
  IF MapHas(c.entityToClass, node.ifcID)
  THEN LET classProps == MapGet(c.usdClasses, MapGet(c.entityToClass, node.ifcID)).properties IN
       SelectSeq(node.properties, LAMBDA e : ~MapHas(classProps, e.k) /\ e.v.t # "null")
  ELSE SelectSeq(node.properties, LAMBDA e : e.v.t # "null")

\* the geometry part of a prim: a reference to the prototype of the first
\* group that lists the node, else the mesh inline
emittedGeometry(c, node) ==
  LET groups == SelectSeq(c.geometryInstances, LAMBDA g : InSeq(g.v.instances, node.ifcID)) IN
  IF ~node.geometry.has THEN [kind |-> "none"]
  ELSE IF groups # <<>> THEN [kind |-> "instance", references |-> groups[1].v.prototypeName]
  ELSE [kind |-> "inline", metadata |-> node.geometry.metadata,
        points |-> node.geometry.points, faces |-> node.geometry.faces]

\* generateHierarchy(nodes, indent)
RECURSIVE generateHierarchy(_, _, _)
generateHierarchy(c, nodes, indent) ==
  [i \in 1..Len(nodes) |->
     LET node == nodes[i]
         hasClass == MapHas(c.entityToClass, node.ifcID)
     IN [indent |-> indent,
         primType |-> node.type,
         name |-> node.name,
         inherits |-> IF hasClass THEN MapGet(c.entityToClass, node.ifcID) ELSE <<>>,
         ifcType |-> IF hasClass THEN <<>> ELSE node.ifcType,
         ifcID |-> node.ifcID,
         typeRef |-> node.typeReference,
         materialBinding |-> node.materialBinding,
         attributes |-> attributesOf(emittedProperties(c, node)),
         geometry |-> emittedGeometry(c, node),
         children |-> generateHierarchy(c, node.children, indent + 1)]]

generateUSDFile(c, hierarchy) ==
  [ context |-> generateContextMetadata(c),
    unhandled |-> generateUnhandledDataMetadata(c),
    classes |-> IF Len(c.usdClasses) > 0 THEN generateClassScope(c) ELSE <<>>,
    resources |-> IF Len(c.resources) > 0 THEN generateScope(c.resources) ELSE <<>>,
    materials |-> IF Len(c.materials) > 0 THEN generateScope(c.materials) ELSE <<>>,
    prototypes |-> IF Len(c.geometryInstances) > 0 THEN generatePrototypesScope(c) ELSE <<>>,
    prims |-> generateHierarchy(c, hierarchy, 1) ]

(***************************************************************************)
(* convert(ifcFile, progressCallback, options): one action per awaited     *)
(* phase.  pc names the phase about to run; progress is what the call has  *)
(* reported to progressCallback.                                           *)
(***************************************************************************)
Phases == <<"start", "gather", "classes", "cat6", "cat2", "cat4", "cat5", "instances",
            "relationships", "hierarchy", "generate", "finalize", "done">>

PhaseIndex(p) == CHOOSE i \in 1..Len(Phases) : Phases[i] = p

\* NextPhase with the walk moved up, before the geometry sources are processed
NextPhaseEarlyWalk(p, options) ==
  LET q == Phases[PhaseIndex(p) + 1] IN
  IF p = "cat4" THEN "hierarchy"
  ELSE IF p = "hierarchy" THEN "cat5"
  ELSE IF p = "relationships" THEN "generate"
  ELSE IF q = "classes" /\ options.disableClasses THEN "cat6"
  ELSE IF q = "instances" /\ options.disableInstancing THEN "relationships"
  ELSE q

\* the phase convert() runs after phase p
NextPhase(p, options) ==
  LET q == Phases[PhaseIndex(p) + 1] IN
  IF q = "classes" /\ options.disableClasses THEN "cat6"
  ELSE IF q = "instances" /\ options.disableInstancing THEN "relationships"
  ELSE q

\* the percentage reported when phase p starts
Percent(p) ==
  CASE p = "start" -> 15 [] p = "gather" -> 25 [] p = "classes" -> 30 [] p = "cat6" -> 35
    [] p = "cat2" -> 45 [] p = "cat4" -> 55 [] p = "cat5" -> 65 [] p = "instances" -> 67
    [] p = "relationships" -> 70 [] p = "hierarchy" -> 75 [] p = "generate" -> 85
    [] p = "finalize" -> 95 [] OTHER -> 100

\* ifcParser.init(), this.modelID = loadIFC(ifcFile): a call starts with no
\* hierarchy and no exception
loadIFC(c) == [c EXCEPT !.modelID = @ + 1, !.hierarchyUSD = <<>>, !.threw = FALSE]

\* the body of phase p on converter c for the file m: a whole call is the
\* phases one after the other
RunPhase(p, c, m) ==
  CASE p = "start" -> loadIFC(c)
    [] p = "gather" -> gatherAllEntities(c, m)
    [] p = "classes" -> analyzeAndCreateClasses(c, m)
    [] p = "cat6" -> processCategory6_GlobalContext(c)
    [] p = "cat2" -> processCategory2_TypeDefinitions(c)
    [] p = "cat4" -> processCategory4_Materials(c)
    [] p = "cat5" -> processCategory5_Geometry(c)
    [] p = "instances" -> detectGeometryInstances(c, m)
    [] p = "relationships" -> processCategoryRelationships(c)
    [] p = "hierarchy" -> processCategory1_PhysicalSpatial(c, m)
    [] p = "generate" -> [c EXCEPT !.usdContent = generateUSDFile(c, c.hierarchyUSD)]
    [] p = "finalize" -> c

Step(p, result) ==
  /\ pc = p
  /\ conv' = result
  /\ progress' = IF p = "finalize" THEN progress \o <<Percent(p), 100>> ELSE Append(progress, Percent(p))
  /\ pc' = IF conv'.threw THEN "threw" ELSE NextPhase(p, model.options)
  /\ UNCHANGED <<model, runs, input, output>>

Start == Step("start", loadIFC(conv))
GatherAllEntities == Step("gather", gatherAllEntities(conv, model))
AnalyzeAndCreateClasses == Step("classes", analyzeAndCreateClasses(conv, model))
ProcessCategory6 == Step("cat6", processCategory6_GlobalContext(conv))
ProcessCategory2 == Step("cat2", processCategory2_TypeDefinitions(conv))
ProcessCategory4 == Step("cat4", processCategory4_Materials(conv))
ProcessCategory5 == Step("cat5", processCategory5_Geometry(conv))
DetectGeometryInstances == Step("instances", detectGeometryInstances(conv, model))
ProcessCategoryRelationships == Step("relationships", processCategoryRelationships(conv))
ProcessCategory1 == Step("hierarchy", processCategory1_PhysicalSpatial(conv, model))
GenerateUSDFile == Step("generate", [conv EXCEPT !.usdContent = generateUSDFile(conv, conv.hierarchyUSD)])
Finalize == Step("finalize", conv)

\* the exported singleton is handed the next file: convert() is called again
\* on the same object, nothing of which is reset
ConvertAgain ==
  /\ pc \in {"done", "threw"}
  /\ runs < MaxRuns
  /\ \E m \in LaterInputs : model' = m
  /\ runs' = runs + 1
  /\ pc' = "start"
  /\ progress' = <<>>
  /\ UNCHANGED <<conv, input, output>>

Init ==
  /\ conv = NewConverter
  /\ model \in Inputs
  /\ runs = 1
  /\ pc = "start"
  /\ progress = <<>>
  /\ input = Undef
  /\ output = Undef

Next ==
  \/ Start
  \/ GatherAllEntities
  \/ AnalyzeAndCreateClasses
  \/ ProcessCategory6
  \/ ProcessCategory2
  \/ ProcessCategory4
  \/ ProcessCategory5
  \/ DetectGeometryInstances
  \/ ProcessCategoryRelationships
  \/ ProcessCategory1
  \/ GenerateUSDFile
  \/ Finalize
  \/ ConvertAgain

Spec == Init /\ [][Next]_vars

(***************************************************************************)
(* What a conversion leaves behind, and what a reader of the document gets *)
(***************************************************************************)
\* convert() from phase p to its return (or to its exception)
RECURSIVE RunFrom(_, _, _)
RunFrom(p, c, m) ==
  IF c.threw \/ p = "done" THEN c
  ELSE RunFrom(NextPhase(p, m.options), RunPhase(p, c, m), m)

\* the file converted by a newly constructed converter
FreshRun(m) == RunFrom("start", NewConverter, m)

\* the tables of a converter and its output
Tables(c) ==
  [ entityCache |-> c.entityCache, processedEntities |-> c.processedEntities,
    resources |-> c.resources, materials |-> c.materials,
    materialIdToName |-> c.materialIdToName, globalContext |-> c.globalContext,
    geometryCache |-> c.geometryCache, typeRelations |-> c.typeRelations,
    usdClasses |-> c.usdClasses, entityToClass |-> c.entityToClass,
    propertySetSignatures |-> c.propertySetSignatures, entityToSignature |-> c.entityToSignature,
    geometryInstances |-> c.geometryInstances, unhandledData |-> c.unhandledData,
    usdContent |-> c.usdContent ]

\* the nodes (or prims) of a hierarchy, parents before children
RECURSIVE AllNodes(_)
AllNodes(nodes) ==
  IF Len(nodes) = 0 THEN <<>>
  ELSE <<nodes[1]>> \o AllNodes(nodes[1].children) \o AllNodes(Tail(nodes))

HierarchyIds(c) == {n.ifcID : n \in SeqToSet(AllNodes(c.hierarchyUSD))}

UnhandledIds(c) ==
  IF MapHas(c.unhandledData, "entities")
  THEN {e.id : e \in SeqToSet(MapGet(c.unhandledData, "entities"))}
  ELSE {}

\* the prims a document has for entity id
PrimsOf(doc, id) == SelectSeq(AllNodes(doc.prims), LAMBDA p : p.ifcID = id)

\* the attributes of the class a prim inherits
ClassAttributes(doc, prim) ==
  LET cls == SelectSeq(doc.classes, LAMBDA b : b.name = prim.inherits) IN
  IF Len(prim.inherits) = 0 \/ Len(cls) = 0 THEN <<>> ELSE cls[1].attributes

\* what a reader of the document gets for a key of a prim: the prim's own
\* attribute, else the attribute of the class it inherits, else nothing
ReaderValue(doc, prim, key) ==
  LET own == SelectSeq(prim.attributes, LAMBDA a : a.key = key)
      inherited == SelectSeq(ClassAttributes(doc, prim), LAMBDA a : a.key = key)
  IN IF Len(own) > 0 THEN <<own[1].value>>
     ELSE IF Len(inherited) > 0 THEN <<inherited[1].value>>
     ELSE <<>>

\* every key a reader sees on a prim, with its value
ReaderProperties(doc, prim) ==
  {<<a.key, ReaderValue(doc, prim, a.key)>> :
      a \in SeqToSet(prim.attributes) \cup SeqToSet(ClassAttributes(doc, prim))}

\* the mesh a reader gets for a prim: its own, or its prototype's
ReaderGeometry(doc, prim) ==
  IF prim.geometry.kind = "inline" THEN <<prim.geometry.points, prim.geometry.faces>>
  ELSE IF prim.geometry.kind = "instance"
  THEN LET proto == SelectSeq(doc.prototypes, LAMBDA b : b.name = prim.geometry.references) IN
       IF Len(proto) = 0 THEN <<>> ELSE <<proto[1].points, proto[1].faces>>
  ELSE <<>>

\* the percentages a complete call reports, in order
ExpectedProgress(options) ==
  SelectSeq(<<15, 25, 30, 35, 45, 55, 65, 67, 70, 75, 85, 95, 100>>,
            LAMBDA x : ~(x = 30 /\ options.disableClasses) /\ ~(x = 67 /\ options.disableInstancing))

\* the tables the walk looks things up in
LookupTables(c) ==
  [ resources |-> c.resources, materials |-> c.materials, materialIdToName |-> c.materialIdToName,
    geometryCache |-> c.geometryCache, typeRelations |-> c.typeRelations,
    globalContext |-> c.globalContext ]

\* the cached entities that pass hasGeometry and whose geometry extracts, in cache order
GeometryOwners(c, m) ==
  SelectSeq(MapKeys(c.entityCache),
            LAMBDA id : hasGeometry(m, id).value /\ extractGeometry(c, m, id).geometry.has)

HashOf(c, m, id) ==
  LET g == extractGeometry(c, m, id).geometry IN hashGeometry(g.points, g.faces)

\* the entities analyzeAndCreateClasses analyzes, and the signature of one
Analyzed(c) ==
  {c.entityCache[i].k : i \in {j \in 1..Len(c.entityCache) : isPhysicalOrSpatial(c.entityCache[j].v.type)}}

SignatureOf(c, m, id) ==
  createSignature(getTypeName(MapGet(c.entityCache, id).type), getPropertiesForEntity(c, m, id).properties)

SharingSignature(c, m, id) == {x \in Analyzed(c) : SignatureOf(c, m, x) = SignatureOf(c, m, id)}

(***************************************************************************)
(* Claims                                                                  *)
(***************************************************************************)
\* C1: after a full convert() run every id getAllEntities enumerated is in a
\* category (the code records it in processedEntities when it files it in a
\* category table or folds it into a node), in the emitted hierarchy, or in
\* unhandledData.entities, whose count the document carries.
C1_EveryIdAccounted ==
  pc = "done" =>
    /\ \A i \in 1..Len(model.all) :
          model.all[i] \in conv.processedEntities \cup HierarchyIds(conv) \cup UnhandledIds(conv)
    /\ conv.usdContent.unhandled.count = Cardinality(UnhandledIds(conv))

\* C2: a second convert() on the same converter ends with the tables and the
\* output a newly constructed converter would have for the same file.
C2_SecondRunAsFresh ==
  (pc = "done" /\ runs >= 2) => Tables(conv) = Tables(FreshRun(model))

\* C3: convert() never ends by throwing, whichever single provider call
\* fails; when it returns it has reported 100 and produced the document of
\* the hierarchy it walked.
C3_NeverAborts ==
  /\ pc # "threw"
  /\ ~conv.threw
  /\ pc = "done" =>
       /\ Len(progress) > 0
       /\ progress[Len(progress)] = 100
       /\ conv.usdContent.prims = generateHierarchy(conv, conv.hierarchyUSD, 1)

C3_Witness ==
  /\ pc = "done"
  /\ model.fault.kind \in {"entity", "psets", "materials", "hasGeometry", "extractGeometry"}
  /\ model.fault.id = 2
  /\ progress = ExpectedProgress(model.options)

\* C4: on a new converter, when a lookup for entity X fails, every other
\* entity of the spatial hierarchy is still emitted as a prim, and a reader
\* gets the same properties, material binding and geometry for it as from
\* the conversion of the same file with X's lookup succeeding.
C4_FailureScopedToEntity ==
  (pc = "done" /\ runs = 1 /\ model.fault.kind # "none") =>
    LET good == FreshRun(Healthy).usdContent
        got == conv.usdContent
    IN \A id \in Physical \ {model.fault.id} :
          /\ Len(PrimsOf(got, id)) = Len(PrimsOf(good, id))
          /\ \A i \in 1..Len(PrimsOf(good, id)) :
                LET a == PrimsOf(got, id)[i]
                    b == PrimsOf(good, id)[i]
                IN /\ ReaderProperties(got, a) = ReaderProperties(good, b)
                   /\ a.materialBinding = b.materialBinding
                   /\ ReaderGeometry(got, a) = ReaderGeometry(good, b)

\* a step of the walk or after it leaves the lookup tables as they are
LookupTablesKept ==
  pc \in {"hierarchy", "generate", "finalize"} => LookupTables(conv') = LookupTables(conv)

\* C5: the phases of a call run in the order gather, classes (unless
\* disabled), global context, type definitions, materials, geometry sources,
\* instances (unless disabled), relationships, walk, serialization; the walk
\* starts with relationships done and the lookup tables are not written from
\* then on; serialization starts with the walk done and the unhandled check
\* having nothing more to record.
C5_PhasesInOrder ==
  /\ [](IsPrefix(progress, ExpectedProgress(model.options)))
  /\ [](pc = "hierarchy" => progress[Len(progress)] = 70)
  /\ [](pc = "generate" =>
          /\ progress[Len(progress)] = 75
          /\ checkForUnprocessedEntities(conv).unhandledData = conv.unhandledData)
  /\ [][LookupTablesKept]_vars

C5_Witness ==
  /\ pc = "generate"
  /\ progress = <<15, 25, 35, 45, 55, 65, 67, 70, 75>>
  /\ model.options.disableClasses
  /\ Len(conv.resources) > 0

\* C6: right after detectGeometryInstances, geometryInstances has an entry
\* for a hash exactly when two or more cached entities with extractable
\* geometry have that hash; the prototype is the first of them in cache
\* order and the instances are all of them in that order.
C6_GroupIffSharedHash ==
  (pc = "relationships" /\ ~model.options.disableInstancing) =>
    LET owners == GeometryOwners(conv, model)
        hashes == {HashOf(conv, model, owners[i]) : i \in 1..Len(owners)}
        sharing(h) == SelectSeq(owners, LAMBDA id : HashOf(conv, model, id) = h)
    IN /\ \A h \in hashes : MapHas(conv.geometryInstances, h) <=> Len(sharing(h)) >= 2
       /\ \A i \in 1..Len(conv.geometryInstances) :
             LET h == conv.geometryInstances[i].k
                 g == conv.geometryInstances[i].v
             IN /\ Len(sharing(h)) >= 2
                /\ g.instances = sharing(h)
                /\ g.prototype.entityID = sharing(h)[1]

\* C6 for the first file a converter is given
C6_OnFirstRun == runs = 1 => C6_GroupIffSharedHash

\* C7: every entity listed in an instance group has a geometry that
\* geometriesMatch finds equal to the group's prototype.
C7_InstancesMatchPrototype ==
  (pc = "relationships" /\ ~model.options.disableInstancing) =>
    \A i \in 1..Len(conv.geometryInstances) :
       LET g == conv.geometryInstances[i].v IN
       \A j \in 1..Len(g.instances) :
          LET own == extractGeometry(conv, model, g.instances[j]).geometry IN
          own.has /\ geometriesMatch(own, g.prototype.geometry, Tolerance)

\* C8: right after analyzeAndCreateClasses, an analyzed entity is mapped to a
\* class exactly when at least MinInstances analyzed entities have its
\* signature, and the classes are those of the signatures that many share.
C8_ClassIffThreshold ==
  (pc = "cat6" /\ ~model.options.disableClasses) =>
    /\ \A id \in Analyzed(conv) :
          MapHas(conv.entityToClass, id) <=>
             Cardinality(SharingSignature(conv, model, id)) >= MinInstances
    /\ MapKeySet(conv.usdClasses) \ {S_BimBase} =
          {generateClassName(SignatureOf(conv, model, id)) :
              id \in {x \in Analyzed(conv) :
                        Cardinality(SharingSignature(conv, model, x)) >= MinInstances}}

\* C8 for the first file a converter is given
C8_OnFirstRun == runs = 1 => C8_ClassIffThreshold

\* C9: the property attributes of a prim are the node's non-null properties
\* whose key is not a key of the class the entity is mapped to (all the
\* non-null ones when it is mapped to none), each with the node's value.
C9_EmitsUncoveredProperties ==
  pc \in {"finalize", "done"} =>
    \A n \in SeqToSet(AllNodes(conv.hierarchyUSD)) :
       LET covered == IF MapHas(conv.entityToClass, n.ifcID)
                      THEN MapKeySet(MapGet(conv.usdClasses, MapGet(conv.entityToClass, n.ifcID)).properties)
                      ELSE {}
           wanted == {e \in SeqToSet(n.properties) : e.v.t # "null" /\ e.k \notin covered}
       IN /\ Len(PrimsOf(conv.usdContent, n.ifcID)) = 1
          /\ LET attrs == PrimsOf(conv.usdContent, n.ifcID)[1].attributes IN
             /\ {a.key : a \in SeqToSet(attrs)} = {e.k : e \in wanted}
             /\ \A a \in SeqToSet(attrs) : \E e \in wanted : e.k = a.key /\ a.value = toUSDValue(e.v)

\* a prim of a class member with a property the class covers, left out, and
\* a non-null one it does not cover, written
C9_Witness ==
  /\ pc = "done"
  /\ \E n \in SeqToSet(AllNodes(conv.hierarchyUSD)) :
        /\ MapHas(conv.entityToClass, n.ifcID)
        /\ \E e \in SeqToSet(n.properties) :
              MapHas(MapGet(conv.usdClasses, MapGet(conv.entityToClass, n.ifcID)).properties, e.k)
        /\ Len(PrimsOf(conv.usdContent, n.ifcID)[1].attributes) > 0

\* C10: for every emitted node and every key of its entity with a non-null
\* value, a reader of the document gets the entity's own value.
C10_NoPropertyLoss ==
  pc = "done" =>
    \A n \in SeqToSet(AllNodes(conv.hierarchyUSD)) :
       \A e \in SeqToSet(n.properties) :
          e.v.t # "null" =>
             \A i \in 1..Len(PrimsOf(conv.usdContent, n.ifcID)) :
                ReaderValue(conv.usdContent, PrimsOf(conv.usdContent, n.ifcID)[i], e.k) = <<toUSDValue(e.v)>>


(***************************************************************************)
(* The materials phase on files that hold several material entities        *)
(***************************************************************************)
\* the entities of ids 1..3 of such a file: a material, a surface style or a
\* wall, named M, N or unnamed, with or without a NominalValue
MaterialIds == 1..3
MaterialEntity(id) ==
  { Entity(id, type, name, nominal, 0) :
      type \in {"IFCMATERIAL", "IFCSURFACESTYLE", "IFCWALL"},
      name \in {<<"M">>, <<"N">>, <<>>},
      nominal \in {NoValue, Value(1)} }

\* entityCache after gatherAllEntities of such a file
MaterialCaches ==
  { <<[k |-> 1, v |-> e1], [k |-> 2, v |-> e2], [k |-> 3, v |-> e3]>> :
      e1 \in MaterialEntity(1), e2 \in MaterialEntity(2), e3 \in MaterialEntity(3) }

\* a new converter that has gathered the file and reached the materials phase
MaterialsInit ==
  /\ conv \in {[NewConverter EXCEPT !.entityCache = cache] : cache \in MaterialCaches}
  /\ model = Healthy
  /\ runs = 1
  /\ pc = "cat4"
  /\ progress = <<>>
  /\ input = Undef
  /\ output = Undef

MaterialsNext == ProcessCategory4

SpecMaterials == MaterialsInit /\ [][MaterialsNext]_vars

\* the material-category entities of the cache, in cache order
MaterialEntries(c) ==
  SelectSeq(c.entityCache, LAMBDA e : e.v.type \in CATEGORY_4_MATERIALS_STYLING)

\* the fields of an entity other than its identity fields
NonIdentityFields(entity) ==
  SelectSeq(flattenEntity(entity), LAMBDA e : e.k \notin {"Name", "GlobalId", "expressID"})

\* the name processCategory4_Materials files an entity under
MaterialNameOf(entity) ==
  IF getEntityName(entity) # <<>> THEN getEntityName(entity)
  ELSE S_Material_ \o IntToStr(entity.expressID)

\* entry i of the material entities is accounted for in exactly one way:
\* canonical under its name with its own id and data, or mapped to the
\* canonical of the signature sig gives it
AccountedOnce(c, mats, i, sig(_)) ==
  LET entity == mats[i].v
      first == CHOOSE j \in 1..i : sig(mats[j].v) = sig(entity)
                                   /\ \A h \in 1..(j - 1) : sig(mats[h].v) # sig(entity)
  IN IF first = i
     THEN /\ MapHas(c.materials, MaterialNameOf(entity))
          /\ MapGet(c.materials, MaterialNameOf(entity)).id = entity.expressID
          /\ MapGet(c.materials, MaterialNameOf(entity)).data = flattenEntity(entity)
          /\ ~MapHas(c.materialIdToName, entity.expressID)
     ELSE /\ MapHas(c.materialIdToName, entity.expressID)
          /\ MapGet(c.materialIdToName, entity.expressID) = MaterialNameOf(mats[first].v)
          /\ \A k \in 1..Len(c.materials) : c.materials[k].v.id # entity.expressID

\* C11: after processCategory4_Materials every material-category entity is
\* either the first of the cache with its signature, and then materials holds
\* an entry under its name with its own id and data, or a later duplicate that
\* materialIdToName maps to the canonical name of its signature; the signature
\* leaves out the identity fields only (name, global id, express id).
C11_MaterialAccountedOnce ==
  pc = "cat5" =>
    \A i \in 1..Len(MaterialEntries(conv)) :
       AccountedOnce(conv, MaterialEntries(conv), i, NonIdentityFields)

\* the same with the signature the code computes (type left out as well)
C11_WithCodeSignature ==
  pc = "cat5" =>
    \A i \in 1..Len(MaterialEntries(conv)) :
       AccountedOnce(conv, MaterialEntries(conv), i, LAMBDA e : createMaterialSignature(flattenEntity(e)))

\* materials of distinct names only
C11_DistinctNames ==
  (pc = "cat5" /\ \A i, j \in 1..Len(MaterialEntries(conv)) :
        i # j => MaterialNameOf(MaterialEntries(conv)[i].v) # MaterialNameOf(MaterialEntries(conv)[j].v)) =>
    \A i \in 1..Len(MaterialEntries(conv)) :
       AccountedOnce(conv, MaterialEntries(conv), i, LAMBDA e : createMaterialSignature(flattenEntity(e)))

(***************************************************************************)
(* Calls of the stand-alone functions                                      *)
(***************************************************************************)
\* the converter takes no part in such a call
ConverterIdle ==
  /\ conv = NewConverter
  /\ model = Healthy
  /\ runs = 1
  /\ progress = <<>>

(***************************************************************************)
(* GeometryHasher.hashGeometry on pairs of meshes                          *)
(***************************************************************************)
\* vertices (and faces) of the large meshes: enough for a sampling stride of 2
MeshSize == 200

Mesh(g) ==
  [points |-> Triples(g.verts),
   faces |-> [i \in 1..(Len(g.indices) \div 3) |->
                <<Num(g.indices[3 * i - 2]), Num(g.indices[3 * i - 1]), Num(g.indices[3 * i])>>]]

SmallMeshes == {Mesh(GeomA), Mesh(GeomB), Mesh(GeomC), Mesh(GeomB2)}

\* a mesh of MeshSize vertices and one of MeshSize faces
LargePoints ==
  [points |-> [i \in 1..MeshSize |-> <<Num(i % 3), 0, Num(1)>>], faces |-> <<>>]
LargeFaces ==
  [points |-> <<<<0, 0, 0>>>>,
   faces |-> [i \in 1..MeshSize |-> <<Num(i % 3), Num((i + 1) % 3), Num((i + 2) % 3)>>]]

\* the element positions changed in a large mesh, and what is put there
ChangedAt == {1, 2, MeshSize - 1, MeshSize}
NewTriples == {<<Num(7), 0, Num(1)>>, <<Num(2), Num(1), 14>>, <<0 - Num(1), 0, 0>>}

\* pairs of meshes handed to hashGeometry one after the other
HashInputs ==
  { <<a, b>> : a \in SmallMeshes, b \in SmallMeshes }
  \cup { <<LargePoints, [LargePoints EXCEPT !.points[i] = t]>> : i \in ChangedAt, t \in NewTriples }
  \cup { <<LargeFaces, [LargeFaces EXCEPT !.faces[i] = t]>> : i \in ChangedAt, t \in NewTriples }

HashInit ==
  /\ ConverterIdle
  /\ pc = "hashGeometry"
  /\ input \in HashInputs
  /\ output = <<>>

\* one call of hashGeometry, on the next mesh of the pair
HashGeometry ==
  /\ pc = "hashGeometry"
  /\ Len(output) < Len(input)
  /\ output' = Append(output, hashGeometry(input[Len(output) + 1].points, input[Len(output) + 1].faces))
  /\ UNCHANGED <<conv, pc, model, runs, progress, input>>

HashNext == HashGeometry

SpecHash == HashInit /\ [][HashNext]_vars

\* the positions the sampling visits among count elements (first is 1)
SampledPositions(count) == {i \in 1..count : (i - 1) % Max(1, count \div 100) = 0}

\* two meshes with the same counts and the same elements at the sampled positions
SameSamples(a, b) ==
  /\ Len(a.points) = Len(b.points)
  /\ Len(a.faces) = Len(b.faces)
  /\ \A i \in SampledPositions(Len(a.points)) : a.points[i] = b.points[i]
  /\ \A i \in SampledPositions(Len(a.faces)) : a.faces[i] = b.faces[i]

WhiteSpace == {" ", "\t"}
LineFeed == "\n"

\* String.prototype.trim()
trim(s) ==
  LET solid == {i \in 1..Len(s) : s[i] \notin WhiteSpace} IN
  IF solid = {} THEN <<>>
  ELSE SubSeq(s, CHOOSE i \in solid : \A j \in solid : i <= j,
                 CHOOSE i \in solid : \A j \in solid : j <= i)

\* 1 + s.indexOf(ch) and 1 + s.lastIndexOf(ch): 0 when ch is not in s
IndexOf(s, ch) ==
  IF \E i \in 1..Len(s) : s[i] = ch
  THEN CHOOSE i \in 1..Len(s) : s[i] = ch /\ \A j \in 1..(i - 1) : s[j] # ch
  ELSE 0
LastIndexOf(s, ch) ==
  IF \E i \in 1..Len(s) : s[i] = ch
  THEN CHOOSE i \in 1..Len(s) : s[i] = ch /\ \A j \in (i + 1)..Len(s) : s[j] # ch
  ELSE 0

\* position of the first occurrence of lit in s at or after from, 0 if none
FindFrom(s, lit, from) ==
  LET at == {i \in from..(Len(s) - Len(lit) + 1) : SubSeq(s, i, i + Len(lit) - 1) = lit} IN
  IF at = {} THEN 0 ELSE CHOOSE i \in at : \A j \in at : i <= j

\* s.includes(lit)
Includes(s, lit) == FindFrom(s, lit, 1) # 0

\* s.replace(/[...]/g, ""): s without the characters of a set
Without(s, chars) == SelectSeq(s, LAMBDA ch : ch \notin chars)

\* s.split(sep) for a separator of several characters
RECURSIVE SplitBy(_, _)
SplitBy(s, sep) ==
  IF FindFrom(s, sep, 1) = 0 THEN <<s>>
  ELSE <<SubSeq(s, 1, FindFrom(s, sep, 1) - 1)>>
       \o SplitBy(SubSeq(s, FindFrom(s, sep, 1) + Len(sep), Len(s)), sep)

\* first position at or after i that holds no white space (Len(s) + 1 if none)
SkipSpaces(s, i) ==
  IF \E j \in i..Len(s) : s[j] \notin WhiteSpace
  THEN CHOOSE j \in i..Len(s) : s[j] \notin WhiteSpace /\ \A h \in i..(j - 1) : s[h] \in WhiteSpace
  ELSE Len(s) + 1

\* lit is in s at position i
LitAt(s, i, lit) == i >= 1 /\ i + Len(lit) - 1 <= Len(s) /\ SubSeq(s, i, i + Len(lit) - 1) = lit

\* Number(text)
NaN == [nan |-> TRUE, n |-> 0]
Number(n) == [nan |-> FALSE, n |-> n]
RECURSIVE DigitsToNat(_)
DigitsToNat(s) ==
  IF s = <<>> THEN 0 ELSE 10 * DigitsToNat(SubSeq(s, 1, Len(s) - 1)) + (IndexIn(Digits, s[Len(s)]) - 1)
IsDigits(s) == s # <<>> /\ \A i \in 1..Len(s) : InSeq(Digits, s[i])
ToNumber(s) ==
  IF s = <<>> THEN Number(0)
  ELSE IF IsDigits(s) THEN Number(DigitsToNat(s))
  ELSE IF s[1] = "-" /\ IsDigits(Tail(s)) THEN Number(0 - DigitsToNat(Tail(s)))
  ELSE IF s[1] = "+" /\ IsDigits(Tail(s)) THEN Number(DigitsToNat(Tail(s)))
  ELSE NaN

\* -v, and values[k] stored in a Float32Array (undefined becomes NaN)
Negated(v) == IF v.nan THEN NaN ELSE Number(0 - v.n)
Component(values, k) == IF k <= Len(values) THEN values[k] ELSE NaN

\* parts.map(Number)
NumbersOf(parts) == [k \in 1..Len(parts) |-> ToNumber(parts[k])]

\* the numbers of one "(x, y, z)" tuple text
TupleValues(tuple) == NumbersOf(Split(Without(tuple, {"(", ")"}), ","))

\* new THREE.Vector3(x, z, -y): USD is Z-up, the viewer Y-up
VectorOf(values) == <<Component(values, 1), Component(values, 3), Negated(Component(values, 2))>>
PointsOf(tuples) == [k \in 1..Len(tuples) |-> VectorOf(TupleValues(tuples[k]))]

\* text.replace(/[\n\s]/g, "").split("),(").map(tuple => Vector3(x, z, -y))
parsePoints(text) == PointsOf(SplitBy(Without(text, WhiteSpace \cup {LineFeed}), <<")", ",", "(">>))

\* text.replace(/[\n\s]/g, "").split(",").map(Number)
parseIndices(text) == NumbersOf(Split(Without(text, WhiteSpace \cup {LineFeed}), ","))

\* the position attribute: x, y, z of every point in turn
Positions(points) == [k \in 1..(3 * Len(points)) |-> points[((k - 1) \div 3) + 1][((k - 1) % 3) + 1]]

\* a record of the meshes list (colour and opacity, which only the material
\* scan and the material binding feed, are left out)
MeshRecord(name, type, points, indices) ==
  [name |-> name, type |-> type, positions |-> Positions(points), index |-> indices]

\* a text buffer that is null, or holds text
NoText == [has |-> FALSE, text |-> <<>>]
Text(t) == [has |-> TRUE, text |-> t]
Truthy(buffer) == buffer.has /\ buffer.text # <<>>

\* /^def\s+<kind>\s+"/ on a trimmed line: the position after the opening
\* quote, 0 when the line does not match
DefNameStart(t, kind) ==
  IF /\ LitAt(t, 1, <<"d", "e", "f">>)
     /\ SkipSpaces(t, 4) > 4
     /\ LitAt(t, SkipSpaces(t, 4), kind)
     /\ SkipSpaces(t, SkipSpaces(t, 4) + Len(kind)) > SkipSpaces(t, 4) + Len(kind)
     /\ LitAt(t, SkipSpaces(t, SkipSpaces(t, 4) + Len(kind)), <<"\"">>)
  THEN SkipSpaces(t, SkipSpaces(t, 4) + Len(kind)) + 1
  ELSE 0

\* the text from position q up to the next double quote: ([^"]+)"
QuotedFrom(t, q) ==
  IF q = 0 \/ FindFrom(t, <<"\"">>, q) <= q THEN NoText
  ELSE Text(SubSeq(t, q, FindFrom(t, <<"\"">>, q) - 1))

\* trimmed.match(/^def\s+Xform\s+"([^"]+)"/)
matchXform(t) == QuotedFrom(t, DefNameStart(t, <<"X", "f", "o", "r", "m">>))

\* /^def\s+Mesh\s+"/.test(trimmed)
testMesh(t) == DefNameStart(t, <<"M", "e", "s", "h">>) # 0

\* the loop over the characters of a line outside a mesh: global depth, and
\* the Xform entries a closing brace pops
RECURSIVE popClosed(_, _)
popClosed(stack, depth) ==
  IF stack # <<>> /\ stack[Len(stack)].depth >= depth
  THEN popClosed(SubSeq(stack, 1, Len(stack) - 1), depth)
  ELSE stack

RECURSIVE trackDepth(_, _, _)
trackDepth(t, k, st) ==
  IF k > Len(t) THEN st
  ELSE IF t[k] = "{" THEN trackDepth(t, k + 1, [st EXCEPT !.globalDepth = @ + 1])
  ELSE IF t[k] = "}"
       THEN trackDepth(t, k + 1, [st EXCEPT !.globalDepth = @ - 1,
                                            !.xformStack = popClosed(@, st.globalDepth - 1)])
  ELSE trackDepth(t, k + 1, st)

\* braces opened less braces closed on a line
BraceDelta(t) == Len(SelectSeq(t, LAMBDA ch : ch = "{")) - Len(SelectSeq(t, LAMBDA ch : ch = "}"))

\* the line the search for the opening brace of a Mesh stops at
OpenLine(lines, i) ==
  IF \E j \in i..Len(lines) : Includes(trim(lines[j]), <<"{">>)
  THEN CHOOSE j \in i..Len(lines) : /\ Includes(trim(lines[j]), <<"{">>)
                                    /\ \A h \in i..(j - 1) : ~Includes(trim(lines[h]), <<"{">>)
  ELSE Len(lines)

\* trimmed.match(/int\[\]\s+faceVertexIndices\s*=\s*\[([^\]]+)\]/) on a line
\* that starts with "int[] faceVertexIndices" (the match at the line's start)
EqualsAt(t) == SkipSpaces(t, SkipSpaces(t, 6) + 17)
BracketAt(t) == SkipSpaces(t, EqualsAt(t) + 1)
matchIndices(t) ==
  IF /\ LitAt(t, 1, <<"i", "n", "t", "[", "]">>)
     /\ SkipSpaces(t, 6) > 6
     /\ LitAt(t, SkipSpaces(t, 6), <<"f", "a", "c", "e", "V", "e", "r", "t", "e", "x", "I", "n", "d", "i", "c", "e", "s">>)
     /\ LitAt(t, EqualsAt(t), <<"=">>)
     /\ LitAt(t, BracketAt(t), <<"[">>)
     /\ FindFrom(t, <<"]">>, BracketAt(t) + 1) > BracketAt(t) + 1
  THEN Text(SubSeq(t, BracketAt(t) + 1, FindFrom(t, <<"]">>, BracketAt(t) + 1) - 1))
  ELSE NoText

\* trimmed.slice(trimmed.indexOf("[") + 1, trimmed.lastIndexOf("]"))
sliceBrackets(t) ==
  IF IndexOf(t, "[") # 0 /\ LastIndexOf(t, "]") # 0
  THEN Text(SubSeq(t, IndexOf(t, "[") + 1, LastIndexOf(t, "]") - 1))
  ELSE NoText

\* the state of the line scan before its first line
ScanStart ==
  [ insideMesh |-> FALSE, meshDepth |-> 0, meshIndex |-> 0,
    faceVertexIndices |-> NoText, points |-> NoText,
    xformStack |-> <<>>, globalDepth |-> 0, meshes |-> <<>>, next |-> 1 ]

\* line i starts a Mesh whose opening brace is on it or on a later line
opensMesh(lines, i, t) == testMesh(t) /\ Includes(trim(lines[OpenLine(lines, i)]), <<"{">>)

\* a line outside a mesh, after the depth loop: Xform push, Mesh detection
outsideMesh(st, lines, i, t) ==
  [ st EXCEPT
      !.xformStack = IF matchXform(t).has
                     THEN Append(@, [name |-> matchXform(t).text, depth |-> st.globalDepth])
                     ELSE @,
      !.insideMesh = opensMesh(lines, i, t),
      !.meshDepth = IF opensMesh(lines, i, t) THEN 1 ELSE @,
      !.faceVertexIndices = IF opensMesh(lines, i, t) THEN NoText ELSE @,
      !.points = IF opensMesh(lines, i, t) THEN NoText ELSE @,
      !.next = IF opensMesh(lines, i, t) THEN OpenLine(lines, i) + 1 ELSE i + 1 ]

\* the Mesh has closed: a record if both buffers hold text
closeMesh(st, i) ==
  [ st EXCEPT
      !.meshes = IF Truthy(st.faceVertexIndices) /\ Truthy(st.points)
                 THEN Append(@, MeshRecord(
                        (IF st.xformStack # <<>> THEN st.xformStack[Len(st.xformStack)].name
                         ELSE <<"M", "e", "s", "h">> \o NatToStr(st.meshIndex)) \o <<"/", "G", "e", "o", "m", "e", "t", "r", "y">>,
                        "Mesh", parsePoints(st.points.text), parseIndices(st.faceVertexIndices.text)))
                 ELSE @,
      !.meshIndex = IF Truthy(st.faceVertexIndices) /\ Truthy(st.points) THEN @ + 1 ELSE @,
      !.insideMesh = FALSE,
      !.faceVertexIndices = NoText,
      !.points = NoText,
      !.next = i + 1 ]

\* a line inside a Mesh that does not close it: the attribute buffers
collect(st, i, t) ==
  [ st EXCEPT
      !.faceVertexIndices = IF ~@.has /\ IsPrefix(<<"i", "n", "t", "[", "]", " ", "f", "a", "c", "e", "V", "e", "r", "t", "e", "x", "I", "n", "d", "i", "c", "e", "s">>, t) /\ matchIndices(t).has
                            THEN matchIndices(t) ELSE @,
      !.points = IF ~@.has /\ IsPrefix(<<"p", "o", "i", "n", "t", "3", "f", "[", "]", " ", "p", "o", "i", "n", "t", "s">>, t) /\ sliceBrackets(t).has
                 THEN sliceBrackets(t) ELSE @,
      !.next = i + 1 ]

insideMeshLine(st, i, t) ==
  IF st.meshDepth = 0 THEN closeMesh(st, i) ELSE collect(st, i, t)

\* the body of the loop for line i
scanLine(st, lines, i) ==
  IF ~st.insideMesh
  THEN outsideMesh(trackDepth(trim(lines[i]), 1, st), lines, i, trim(lines[i]))
  ELSE insideMeshLine([st EXCEPT !.meshDepth = @ + BraceDelta(trim(lines[i]))], i, trim(lines[i]))

RECURSIVE scanFrom(_, _)
scanFrom(st, lines) ==
  IF st.next > Len(lines) THEN st
  ELSE scanFrom(scanLine(st, lines, st.next), lines)

\* extractGeometriesDirect(usdaText): the meshes of one pass over the lines
extractGeometriesDirect(lines) == scanFrom(ScanStart, lines).meshes

(***************************************************************************)
(* The structural path: parsePrimTree (hierarchyParser.js), then           *)
(* extractGeometries on the prim tree                                      *)
(***************************************************************************)
\* the words of a prim header: specifier, type, and the position after the
\* opening quote of the name (0 when the line is no header)
WordEnd(t, i) ==
  IF \E j \in i..Len(t) : t[j] \in WhiteSpace
  THEN CHOOSE j \in i..Len(t) : t[j] \in WhiteSpace /\ \A h \in i..(j - 1) : t[h] \notin WhiteSpace
  ELSE Len(t) + 1

Specifiers == {<<"d", "e", "f">>, <<"o", "v", "e", "r">>, <<"c", "l", "a", "s", "s">>}

HeaderType(t) == SubSeq(t, SkipSpaces(t, WordEnd(t, 1)), WordEnd(t, SkipSpaces(t, WordEnd(t, 1))) - 1)
HeaderName(t) ==
  IF /\ t # <<>>
     /\ SubSeq(t, 1, WordEnd(t, 1) - 1) \in Specifiers
     /\ LitAt(t, SkipSpaces(t, WordEnd(t, SkipSpaces(t, WordEnd(t, 1)))), <<"\"">>)
  THEN QuotedFrom(t, SkipSpaces(t, WordEnd(t, SkipSpaces(t, WordEnd(t, 1)))) + 1)
  ELSE NoText

\* brace depth after line j, counted from line o
RECURSIVE DepthAfter(_, _, _)
DepthAfter(lines, o, j) == IF j < o THEN 0 ELSE DepthAfter(lines, o, j - 1) + BraceDelta(lines[j])

\* the line that holds the brace matching the one opened on line o, 0 if none
CloseLine(lines, o) ==
  IF \E j \in o..Len(lines) : DepthAfter(lines, o, j) = 0
  THEN CHOOSE j \in o..Len(lines) : DepthAfter(lines, o, j) = 0
                                    /\ \A h \in o..(j - 1) : DepthAfter(lines, o, h) # 0
  ELSE 0

\* line i is the header of a prim whose braces are balanced
IsPrimAt(lines, i) ==
  /\ HeaderName(trim(lines[i])).has
  /\ Includes(lines[OpenLine(lines, i)], <<"{">>)
  /\ CloseLine(lines, OpenLine(lines, i)) # 0

RECURSIVE parsePrims(_, _, _)
parsePrims(lines, i, parentPath) ==
  IF i > Len(lines) THEN <<>>
  ELSE IF ~IsPrimAt(lines, i) THEN parsePrims(lines, i + 1, parentPath)
  ELSE << [ path |-> parentPath \o <<"/">> \o HeaderName(trim(lines[i])).text,
            name |-> HeaderName(trim(lines[i])).text,
            type |-> HeaderType(trim(lines[i])),
            rawContent |-> Join(SubSeq(lines, OpenLine(lines, i) + 1,
                                       CloseLine(lines, OpenLine(lines, i)) - 1), <<LineFeed>>),
            children |-> parsePrims(SubSeq(lines, OpenLine(lines, i) + 1,
                                           CloseLine(lines, OpenLine(lines, i)) - 1), 1,
                                    parentPath \o <<"/">> \o HeaderName(trim(lines[i])).text) ] >>
       \o parsePrims(lines, CloseLine(lines, OpenLine(lines, i)) + 1, parentPath)

\* parsePrimTree(usdaText): the root prims of a text
parsePrimTree(lines) == parsePrims(lines, 1, <<>>)

\* content.match(/<lit>([^]*?)\]/) for a literal that ends with "[": the group
matchBracketed(content, lit) ==
  IF FindFrom(content, lit, 1) # 0 /\ FindFrom(content, <<"]">>, FindFrom(content, lit, 1) + Len(lit)) # 0
  THEN Text(SubSeq(content, FindFrom(content, lit, 1) + Len(lit),
                   FindFrom(content, <<"]">>, FindFrom(content, lit, 1) + Len(lit)) - 1))
  ELSE NoText

\* what findGeometry pushes for one prim (the geometry of a Sphere or Cube is
\* made by the 3D library from a radius or size: no positions are kept here)
meshesOfPrim(prim) ==
  IF prim.type = <<"M", "e", "s", "h">>
  THEN IF /\ matchBracketed(prim.rawContent, <<"p", "o", "i", "n", "t", "3", "f", "[", "]", " ", "p", "o", "i", "n", "t", "s", " ", "=", " ", "[">>).has
          /\ matchBracketed(prim.rawContent, <<"i", "n", "t", "[", "]", " ", "f", "a", "c", "e", "V", "e", "r", "t", "e", "x", "I", "n", "d", "i", "c", "e", "s", " ", "=", " ", "[">>).has
       THEN << MeshRecord(Tail(prim.path), "Mesh",
                          parsePoints(matchBracketed(prim.rawContent, <<"p", "o", "i", "n", "t", "3", "f", "[", "]", " ", "p", "o", "i", "n", "t", "s", " ", "=", " ", "[">>).text),
                          parseIndices(matchBracketed(prim.rawContent, <<"i", "n", "t", "[", "]", " ", "f", "a", "c", "e", "V", "e", "r", "t", "e", "x", "I", "n", "d", "i", "c", "e", "s", " ", "=", " ", "[">>).text)) >>
       ELSE <<>>
  ELSE IF prim.type = <<"S", "p", "h", "e", "r", "e">> THEN << MeshRecord(Tail(prim.path), "Sphere", <<>>, <<>>) >>
  ELSE IF prim.type = <<"C", "u", "b", "e">> THEN << MeshRecord(Tail(prim.path), "Cube", <<>>, <<>>) >>
  ELSE <<>>

RECURSIVE findGeometry(_)
findGeometry(prims) ==
  IF prims = <<>> THEN <<>>
  ELSE meshesOfPrim(Head(prims)) \o findGeometry(Head(prims).children) \o findGeometry(Tail(prims))

\* extractGeometries(primHierarchy)
extractGeometries(primHierarchy) == findGeometry(primHierarchy)

\* usdaText.length
RECURSIVE TextLength(_)
TextLength(lines) ==
  IF lines = <<>> THEN 0
  ELSE Len(Head(lines)) + (IF Len(lines) > 1 THEN 1 ELSE 0) + TextLength(Tail(lines))

\* files longer than this take the linear extractor
LargeFileLength == 500000

\* USDA_PARSER.parseUSDA(usdaText)
parseUSDA(lines) ==
  IF TextLength(lines) > LargeFileLength THEN extractGeometriesDirect(lines)
  ELSE extractGeometries(parsePrimTree(lines))

(***************************************************************************)
(* Files handed to the two extractors: one Mesh block, at the root or      *)
(* under one or two Xform prims, possibly followed by a well-formed Mesh    *)
(* under a further Xform                                                   *)
(***************************************************************************)
PointsChoices == {"good", "missing", "unparsable", "empty"}
IndicesChoices == {"good", "missing", "unparsable"}
WrapChoices == {"none", "one", "two"}
MeshNames == {<<"G", "e", "o", "m", "e", "t", "r", "y">>, <<"B", "o", "d", "y">>}

PointsLine(choice) ==
  CASE choice = "good" -> << <<" ", " ", " ", " ", "p", "o", "i", "n", "t", "3", "f", "[", "]", " ", "p", "o", "i", "n", "t", "s", " ", "=", " ", "[", "(", "1", ",", " ", "2", ",", " ", "3", ")", ",", " ", "(", "4", ",", " ", "5", ",", " ", "6", ")", "]">> >>
    [] choice = "unparsable" -> << <<" ", " ", " ", " ", "p", "o", "i", "n", "t", "3", "f", "[", "]", " ", "p", "o", "i", "n", "t", "s", " ", "=", " ", "[", "(", "1", ",", " ", "2", ",", " ", "3", ")", ",", " ", "(", "4", ",", " ", "y", ",", " ", "6", ")", "]">> >>
    [] choice = "empty" -> << <<" ", " ", " ", " ", "p", "o", "i", "n", "t", "3", "f", "[", "]", " ", "p", "o", "i", "n", "t", "s", " ", "=", " ", "[", "]">> >>
    [] choice = "missing" -> <<>>

IndicesLine(choice) ==
  CASE choice = "good" -> << <<" ", " ", " ", " ", "i", "n", "t", "[", "]", " ", "f", "a", "c", "e", "V", "e", "r", "t", "e", "x", "I", "n", "d", "i", "c", "e", "s", " ", "=", " ", "[", "0", ",", " ", "1", ",", " ", "0", "]">> >>
    [] choice = "unparsable" -> << <<" ", " ", " ", " ", "i", "n", "t", "[", "]", " ", "f", "a", "c", "e", "V", "e", "r", "t", "e", "x", "I", "n", "d", "i", "c", "e", "s", " ", "=", " ", "[", "0", ",", " ", "k", ",", " ", "0", "]">> >>
    [] choice = "missing" -> <<>>

MeshLines(name, points, indices, braceBelow) ==
  (IF braceBelow THEN << <<" ", " ", "d", "e", "f", " ", "M", "e", "s", "h", " ", "\"">> \o name \o <<"\"">>, <<" ", " ", "{">> >>
   ELSE << <<" ", " ", "d", "e", "f", " ", "M", "e", "s", "h", " ", "\"">> \o name \o <<"\"", " ", "{">> >>)
  \o IndicesLine(indices) \o PointsLine(points) \o << <<" ", " ", "}">> >>

Wrapped(wrap, lines) ==
  CASE wrap = "none" -> lines
    [] wrap = "one" -> << <<"d", "e", "f", " ", "X", "f", "o", "r", "m", " ", "\"", "A", "\"", " ", "{">> >> \o lines \o << <<"}">> >>
    [] wrap = "two" -> << <<"d", "e", "f", " ", "X", "f", "o", "r", "m", " ", "\"", "S", "\"", " ", "{">>, <<" ", "d", "e", "f", " ", "X", "f", "o", "r", "m", " ", "\"", "A", "\"", " ", "{">> >> \o lines \o << <<" ", "}">>, <<"}">> >>

\* the well-formed Mesh that may follow
FollowingMesh == << <<"d", "e", "f", " ", "X", "f", "o", "r", "m", " ", "\"", "B", "\"", " ", "{">> >> \o MeshLines(<<"G", "e", "o", "m", "e", "t", "r", "y">>, "good", "good", FALSE) \o << <<"}">> >>

\* a file: what its first Mesh block is like, and its lines
UsdaFiles ==
  { [ wrap |-> w, mesh |-> n, points |-> p, indices |-> x, followed |-> f,
      lines |-> Wrapped(w, MeshLines(n, p, x, b)) \o (IF f THEN FollowingMesh ELSE <<>>) ] :
      w \in WrapChoices, n \in MeshNames, p \in PointsChoices, x \in IndicesChoices,
      b \in BOOLEAN, f \in BOOLEAN }

NotCalled == [returned |-> FALSE, meshes |-> <<>>]
Returned(meshes) == [returned |-> TRUE, meshes |-> meshes]

ExtractInit ==
  /\ ConverterIdle
  /\ pc = "extract"
  /\ input \in UsdaFiles
  /\ output = [direct |-> NotCalled, structural |-> NotCalled]

\* extractGeometriesDirect(usdaText)
ExtractGeometriesDirect ==
  /\ pc = "extract"
  /\ ~output.direct.returned
  /\ output' = [output EXCEPT !.direct = Returned(extractGeometriesDirect(input.lines))]
  /\ UNCHANGED <<conv, pc, model, runs, progress, input>>

\* USDA_PARSER.parseUSDA(usdaText)
ParseUSDA ==
  /\ pc = "extract"
  /\ ~output.structural.returned
  /\ output' = [output EXCEPT !.structural = Returned(parseUSDA(input.lines))]
  /\ UNCHANGED <<conv, pc, model, runs, progress, input>>

ExtractNext == ExtractGeometriesDirect \/ ParseUSDA

SpecExtract == ExtractInit /\ [][ExtractNext]_vars

\* the records of type Mesh
MeshesOnly(meshes) == SelectSeq(meshes, LAMBDA r : r.type = "Mesh")
NamesOf(meshes) == {meshes[k].name : k \in 1..Len(meshes)}

\* C13: for a text below the size threshold the linear extractor and the
\* structural one (parsePrimTree, then extractGeometries) emit the same set
\* of mesh names and, for each name, the same vertex count, the same
\* face-index count and identical coordinates after the (x, y, z) ->
\* (x, z, -y) remap.
C13_ExtractorsAgree ==
  (output.direct.returned /\ output.structural.returned /\ TextLength(input.lines) <= LargeFileLength) =>
    /\ NamesOf(output.direct.meshes) = NamesOf(MeshesOnly(output.structural.meshes))
    /\ \A i \in 1..Len(output.direct.meshes) :
         \A j \in 1..Len(output.structural.meshes) :
            output.direct.meshes[i].name = output.structural.meshes[j].name =>
               /\ Len(output.direct.meshes[i].positions) = Len(output.structural.meshes[j].positions)
               /\ Len(output.direct.meshes[i].index) = Len(output.structural.meshes[j].index)
               /\ output.direct.meshes[i].positions = output.structural.meshes[j].positions

\* the same without the coordinates: names and counts only
C13_NamesAndCounts ==
  (output.direct.returned /\ output.structural.returned /\ input.mesh = <<"G", "e", "o", "m", "e", "t", "r", "y">> /\ input.wrap = "one") =>
    /\ NamesOf(output.direct.meshes) = NamesOf(MeshesOnly(output.structural.meshes))
    /\ \A i \in 1..Len(output.direct.meshes) :
         \A j \in 1..Len(output.structural.meshes) :
            output.direct.meshes[i].name = output.structural.meshes[j].name =>
               /\ Len(output.direct.meshes[i].positions) = Len(output.structural.meshes[j].positions)
               /\ Len(output.direct.meshes[i].index) = Len(output.structural.meshes[j].index)

\* the name extractGeometriesDirect gives the first Mesh block of a file
DirectNameOf(file) ==
  CASE file.wrap = "none" -> <<"M", "e", "s", "h", "0", "/", "G", "e", "o", "m", "e", "t", "r", "y">>
    [] OTHER -> <<"A", "/", "G", "e", "o", "m", "e", "t", "r", "y">>

\* C14: extractGeometriesDirect returns for every file; a Mesh block whose
\* points or faceVertexIndices are missing or unparsable gives no record, and
\* every well-formed Mesh, also one that follows a bad one, gives its record.
C14_BadMeshSkipped ==
  output.direct.returned =>
    NamesOf(output.direct.meshes) =
      (IF input.points = "good" /\ input.indices = "good" THEN {DirectNameOf(input)} ELSE {})
      \cup (IF input.followed THEN {<<"B", "/", "G", "e", "o", "m", "e", "t", "r", "y">>} ELSE {})

\* the same where nothing is unparsable: points and indices good or missing
C14_MissingSkipped ==
  (output.direct.returned /\ input.points \in {"good", "missing"} /\ input.indices \in {"good", "missing"}) =>
    NamesOf(output.direct.meshes) =
      (IF input.points = "good" /\ input.indices = "good" THEN {DirectNameOf(input)} ELSE {})
      \cup (IF input.followed THEN {<<"B", "/", "G", "e", "o", "m", "e", "t", "r", "y">>} ELSE {})

(***************************************************************************)
(* validateUsdaSyntax (src/utils/atomicFileHandler.js)                     *)
(* The file content is one text, its lines joined by line feeds.  A        *)
(* message is a record: its kind and the values the text of the message    *)
(* mentions.                                                               *)
(***************************************************************************)
AnySpace == WhiteSpace \cup {LineFeed}
NameStart == SeqToSet(Upper) \cup SeqToSet(Lower) \cup {"_"}
NameChars == NameStart \cup SeqToSet(Digits)
VersionChars == SeqToSet(Digits) \cup {"."}

\* first position at or after i whose character is not in chars (Len(s) + 1 if none)
SkipOver(s, i, chars) ==
  IF \E j \in i..Len(s) : s[j] \notin chars
  THEN CHOOSE j \in i..Len(s) : s[j] \notin chars /\ \A h \in i..(j - 1) : s[h] \in chars
  ELSE Len(s) + 1

\* (fileContent.match(/{/g) || []).length
CountOf(text, ch) == Len(SelectSeq(text, LAMBDA x : x = ch))

\* /#usda\s+[\d.]+/ matches at position i
HeaderAt(text, i) ==
  /\ LitAt(text, i, <<"#", "u", "s", "d", "a">>)
  /\ SkipOver(text, i + 5, AnySpace) > i + 5
  /\ SkipOver(text, i + 5, AnySpace) <= Len(text)
  /\ text[SkipOver(text, i + 5, AnySpace)] \in VersionChars

\* the positions of the matches of the header pattern
HeaderMatches(text) == {i \in 1..Len(text) : HeaderAt(text, i)}
FirstOf(positions) == CHOOSE i \in positions : \A j \in positions : i <= j

\* position after the match of the header pattern at i
HeaderEnd(text, i) == SkipOver(text, SkipOver(text, i + 5, AnySpace), VersionChars)

AttrTypes == {<<"f", "l", "o", "a", "t">>, <<"s", "t", "r", "i", "n", "g">>, <<"i", "n", "t">>, <<"b", "o", "o", "l">>, <<"t", "o", "k", "e", "n">>, <<"d", "o", "u", "b", "l", "e">>}

\* /custom\s+(float|string|int|bool|token|double)\s+([a-zA-Z_][a-zA-Z0-9_]*)\s*=/
\* at position i: where the type and the name start, for the type ty
TypeAt(text, i) == SkipOver(text, i + 6, AnySpace)
NameAt(text, i, ty) == SkipOver(text, TypeAt(text, i) + Len(ty), AnySpace)
CustomAttrAs(text, i, ty) ==
  /\ LitAt(text, i, <<"c", "u", "s", "t", "o", "m">>)
  /\ TypeAt(text, i) > i + 6
  /\ LitAt(text, TypeAt(text, i), ty)
  /\ NameAt(text, i, ty) > TypeAt(text, i) + Len(ty)
  /\ NameAt(text, i, ty) <= Len(text)
  /\ text[NameAt(text, i, ty)] \in NameStart
  /\ LitAt(text, SkipOver(text, SkipOver(text, NameAt(text, i, ty), NameChars), AnySpace), <<"=">>)

CustomAttrAt(text, i) == \E ty \in AttrTypes : CustomAttrAs(text, i, ty)

\* match[2] of the match at i
AttrNameAt(text, i) ==
  SubSeq(text,
         NameAt(text, i, CHOOSE ty \in AttrTypes : CustomAttrAs(text, i, ty)),
         SkipOver(text, NameAt(text, i, CHOOSE ty \in AttrTypes : CustomAttrAs(text, i, ty)), NameChars) - 1)

\* afterHeader.match(/^\s*\)/m) from the header at h: the line starts from
\* which white space leads to a closing parenthesis
CloseStarts(text, h) ==
  {p \in h..Len(text) : /\ (p = h \/ text[p - 1] = LineFeed)
                        /\ LitAt(text, SkipOver(text, p, AnySpace), <<")">>)}

\* metadataEndIndex: the number of characters up to and with that parenthesis
metadataEndIndex(text) ==
  IF HeaderMatches(text) = {} \/ CloseStarts(text, FirstOf(HeaderMatches(text))) = {} THEN 0
  ELSE SkipOver(text, FirstOf(CloseStarts(text, FirstOf(HeaderMatches(text)))), AnySpace)

\* the matches of the attribute pattern kept: no ":" in the name, not before
\* metadataEndIndex; in text order
RECURSIVE AscendingSeq(_)
AscendingSeq(positions) ==
  IF positions = {} THEN <<>>
  ELSE <<FirstOf(positions)>> \o AscendingSeq(positions \ {FirstOf(positions)})

nonNamespacedAttrs(text) ==
  [k \in 1..Cardinality({i \in 1..Len(text) : CustomAttrAt(text, i) /\ ~Includes(AttrNameAt(text, i), <<":">>)
                                               /\ ~(i - 1 < metadataEndIndex(text))}) |->
     AttrNameAt(text, AscendingSeq({i \in 1..Len(text) : CustomAttrAt(text, i)
                                       /\ ~Includes(AttrNameAt(text, i), <<":">>)
                                       /\ ~(i - 1 < metadataEndIndex(text))})[k])]

\* text.trim() for text of several lines
trimAll(s) ==
  IF \A i \in 1..Len(s) : s[i] \in AnySpace THEN <<>>
  ELSE SubSeq(s, SkipOver(s, 1, AnySpace),
              CHOOSE i \in 1..Len(s) : s[i] \notin AnySpace /\ \A j \in (i + 1)..Len(s) : s[j] \in AnySpace)

\* a closing parenthesis at depth 0 is found from position i on
RECURSIVE foundClosing(_, _, _)
foundClosing(s, i, depth) ==
  IF i > Len(s) THEN FALSE
  ELSE IF s[i] = "(" THEN foundClosing(s, i + 1, depth + 1)
  ELSE IF s[i] = ")" THEN (depth = 0 \/ foundClosing(s, i + 1, depth - 1))
  ELSE foundClosing(s, i + 1, depth)

\* variant of the brace check that only sees missing closing braces
braceErrorsOpenOnly(text) ==
  IF CountOf(text, "{") > CountOf(text, "}")
  THEN << [kind |-> "Brace mismatch", open |-> CountOf(text, "{"), close |-> CountOf(text, "}")] >>
  ELSE <<>>

\* 1. brace balance
braceErrors(text) ==
  IF CountOf(text, "{") # CountOf(text, "}")
  THEN << [kind |-> "Brace mismatch", open |-> CountOf(text, "{"), close |-> CountOf(text, "}")] >>
  ELSE <<>>

\* 2. duplicate headers
headerErrors(text) ==
  IF HeaderMatches(text) = {} THEN << [kind |-> "Missing USD header"] >>
  ELSE IF Cardinality(HeaderMatches(text)) > 1
       THEN << [kind |-> "Multiple USD headers found", count |-> Cardinality(HeaderMatches(text))] >>
  ELSE <<>>

\* 3. header position
positionWarnings(text) ==
  IF /\ FindFrom(text, <<"#", "u", "s", "d", "a">>, 1) > 1
     /\ trimAll(SubSeq(text, 1, FindFrom(text, <<"#", "u", "s", "d", "a">>, 1) - 1)) # <<>>
     /\ ~IsPrefix(<<"#", " ", "F", "i", "l", "e", ":">>, trimAll(SubSeq(text, 1, FindFrom(text, <<"#", "u", "s", "d", "a">>, 1) - 1)))
  THEN << [kind |-> "USD header should be at the beginning"] >>
  ELSE <<>>

\* 4. custom attributes without namespace
namespaceWarnings(attrs) ==
  IF Len(attrs) > 0
  THEN << [kind |-> "without namespace", count |-> Len(attrs), examples |-> Substring0(attrs, 3)] >>
  ELSE <<>>

\* 5. empty file
emptyErrors(text) == IF trimAll(text) = <<>> THEN << [kind |-> "File is empty"] >> ELSE <<>>

\* 6. metadata block structure: after is the text after the header match
metadataErrorsAfter(after) ==
  IF LitAt(after, SkipOver(after, 1, AnySpace), <<"(">>) /\ ~foundClosing(after, SkipOver(after, 1, AnySpace) + 1, 0)
  THEN << [kind |-> "Metadata block has unbalanced parentheses"] >>
  ELSE <<>>

metadataErrors(text) ==
  IF HeaderMatches(text) = {} THEN <<>>
  ELSE metadataErrorsAfter(SubSeq(text, HeaderEnd(text, FirstOf(HeaderMatches(text))), Len(text)))

Report(errors, warnings) == [valid |-> Len(errors) = 0, errors |-> errors, warnings |-> warnings]

\* validateUsdaSyntax(fileContent)
validateUsdaSyntax(fileContent) ==
  Report(braceErrors(fileContent) \o headerErrors(fileContent) \o emptyErrors(fileContent)
           \o metadataErrors(fileContent),
         positionWarnings(fileContent) \o namespaceWarnings(nonNamespacedAttrs(fileContent)))

(***************************************************************************)
(* Files handed to validateUsdaSyntax                                      *)
(***************************************************************************)
HeaderChoices == {"one", "none", "two", "commented"}
MetadataChoices == {"none", "plain", "attribute", "unclosed"}
BraceChoices == {"balanced", "unclosed", "extra"}
AttributeChoices == {"none", "plain", "namespaced", "mixed", "many", "vector"}

HeaderLines(choice) ==
  CASE choice = "none" -> <<>>
    [] choice = "commented" -> << <<"#", " ", "F", "i", "l", "e", ":", " ", "a", ".", "u", "s", "d", "a">>, <<"#", "u", "s", "d", "a", " ", "1", ".", "0">> >>
    [] OTHER -> << <<"#", "u", "s", "d", "a", " ", "1", ".", "0">> >>

MetadataLines(choice) ==
  CASE choice = "none" -> <<>>
    [] choice = "plain" -> << <<"(">>, <<" ", " ", " ", " ", "d", "e", "f", "a", "u", "l", "t", "P", "r", "i", "m", " ", "=", " ", "\"", "W", "\"">>, <<")">> >>
    [] choice = "attribute" -> << <<"(">>, <<" ", " ", " ", " ", "c", "u", "s", "t", "o", "m", " ", "i", "n", "t", " ", "h", "i", "d", "d", "e", "n", " ", "=", " ", "1">>, <<")">> >>
    [] choice = "unclosed" -> << <<"(">>, <<" ", " ", " ", " ", "d", "e", "f", "a", "u", "l", "t", "P", "r", "i", "m", " ", "=", " ", "\"", "W", "\"">> >>

AttributeLines(choice) ==
  CASE choice = "none" -> <<>>
    [] choice = "plain" -> << <<" ", " ", " ", " ", "c", "u", "s", "t", "o", "m", " ", "f", "l", "o", "a", "t", " ", "f", "o", "o", " ", "=", " ", "1">> >>
    [] choice = "namespaced" -> << <<" ", " ", " ", " ", "c", "u", "s", "t", "o", "m", " ", "s", "t", "r", "i", "n", "g", " ", "i", "f", "c", ":", "b", "a", "r", " ", "=", " ", "\"", "v", "\"">> >>
    [] choice = "mixed" -> << <<" ", " ", " ", " ", "c", "u", "s", "t", "o", "m", " ", "s", "t", "r", "i", "n", "g", " ", "i", "f", "c", ":", "b", "a", "r", " ", "=", " ", "\"", "v", "\"">>, <<" ", " ", " ", " ", "c", "u", "s", "t", "o", "m", " ", "f", "l", "o", "a", "t", " ", "f", "o", "o", " ", "=", " ", "1">> >>
    [] choice = "many" -> << <<" ", " ", " ", " ", "c", "u", "s", "t", "o", "m", " ", "f", "l", "o", "a", "t", " ", "f", "o", "o", " ", "=", " ", "1">>, <<" ", " ", " ", " ", "c", "u", "s", "t", "o", "m", " ", "i", "n", "t", " ", "b", "a", "r", " ", "=", " ", "2">>,
                             <<" ", " ", " ", " ", "c", "u", "s", "t", "o", "m", " ", "b", "o", "o", "l", " ", "b", "a", "z", " ", "=", " ", "1">>, <<" ", " ", " ", " ", "c", "u", "s", "t", "o", "m", " ", "d", "o", "u", "b", "l", "e", " ", "q", "u", "x", "=", " ", "3">> >>
    [] choice = "vector" -> << <<" ", " ", " ", " ", "c", "u", "s", "t", "o", "m", " ", "c", "o", "l", "o", "r", "3", "f", " ", "t", "i", "n", "t", " ", "=", " ", "(", "1", ",", " ", "0", ",", " ", "0", ")">> >>

ClosingLines(choice) ==
  CASE choice = "balanced" -> << <<"}">> >>
    [] choice = "unclosed" -> <<>>
    [] choice = "extra" -> << <<"}">>, <<"}">> >>

\* a prim with metadata of its own
TailPrim == << <<"d", "e", "f", " ", "X", "f", "o", "r", "m", " ", "\"", "T", "\"", " ", "(">>, <<" ", " ", " ", " ", "k", "i", "n", "d", " ", "=", " ", "\"", "c", "o", "m", "p", "o", "n", "e", "n", "t", "\"">>, <<")">>, <<"{">>, <<"}">> >>

ValidatorText(h, m, b, a, t) ==
  Join(HeaderLines(h) \o MetadataLines(m) \o << <<"d", "e", "f", " ", "X", "f", "o", "r", "m", " ", "\"", "W", "\"">>, <<"{">> >> \o AttributeLines(a)
         \o (IF h = "two" THEN << <<" ", " ", " ", " ", "#", "u", "s", "d", "a", " ", "1", ".", "0">> >> ELSE <<>>)
         \o ClosingLines(b) \o (IF t THEN TailPrim ELSE <<>>),
       <<LineFeed>>)

\* a file: how it was put together, and its text
ValidatorFiles ==
  { [ header |-> h, metadata |-> m, braces |-> b, attributes |-> a, tail |-> t,
      text |-> ValidatorText(h, m, b, a, t) ] :
      h \in HeaderChoices, m \in MetadataChoices, b \in BraceChoices, a \in AttributeChoices,
      t \in BOOLEAN }

ValidateInit ==
  /\ ConverterIdle
  /\ pc = "validate"
  /\ input \in ValidatorFiles
  /\ output = [returned |-> FALSE, report |-> Report(<<>>, <<>>)]

\* validateUsdaSyntax(fileContent)
ValidateUsdaSyntax ==
  /\ pc = "validate"
  /\ ~output.returned
  /\ output' = [returned |-> TRUE, report |-> validateUsdaSyntax(input.text)]
  /\ UNCHANGED <<conv, pc, model, runs, progress, input>>

ValidateNext == ValidateUsdaSyntax

SpecValidate == ValidateInit /\ [][ValidateNext]_vars

\* the messages of a kind
OfKind(messages, kind) == SelectSeq(messages, LAMBDA e : e.kind = kind)

\* the number of characters ch of a text
Occurrences(text, ch) == Cardinality({i \in 1..Len(text) : text[i] = ch})

\* C15: validateUsdaSyntax reports the error "Brace mismatch: <o> opening ...
\* vs <c> closing", and valid false, exactly when the number o of "{" in the
\* text differs from the number c of "}": with other counts, missing or extra
\* closing braces alike; with equal counts no brace error is reported.
C15_BraceMismatchIffUnequal ==
  output.returned =>
    IF Occurrences(input.text, "{") # Occurrences(input.text, "}")
    THEN /\ ~output.report.valid
         /\ OfKind(output.report.errors, "Brace mismatch")
              = << [kind |-> "Brace mismatch", open |-> Occurrences(input.text, "{"),
                    close |-> Occurrences(input.text, "}")] >>
    ELSE OfKind(output.report.errors, "Brace mismatch") = <<>>

\* a text with more closing than opening braces, validated
C15_Witness ==
  /\ output.returned
  /\ Occurrences(input.text, "{") < Occurrences(input.text, "}")
  /\ ~output.report.valid

\* the custom attributes without namespace outside the header's metadata
\* block, of the six types the check looks for
UnnamespacedOf(file) ==
  CASE file.attributes \in {"plain", "mixed"} -> << <<"f", "o", "o">> >>
    [] file.attributes = "many" -> << <<"f", "o", "o">>, <<"b", "a", "r">>, <<"b", "a", "z">>, <<"q", "u", "x">> >>
    [] OTHER -> <<>>

NamespaceReport(file, report) ==
  /\ OfKind(report.errors, "without namespace") = <<>>
  /\ (file.braces = "balanced" /\ file.metadata # "unclosed") => report.valid
  /\ OfKind(report.warnings, "without namespace") =
       (IF UnnamespacedOf(file) = <<>> THEN <<>>
        ELSE << [kind |-> "without namespace", count |-> Len(UnnamespacedOf(file)),
                 examples |-> Substring0(UnnamespacedOf(file), 3)] >>)

\* C16: for a text with a single header, the custom attributes whose name
\* has no namespace separator and that lie outside the header's metadata
\* block are reported in one "without namespace" warning, never as an error
\* (valid stays true); attributes inside the header's metadata block and
\* namespaced ones give no warning.
C16_UnnamespacedWarned ==
  (output.returned /\ input.header \in {"one", "commented"}) => NamespaceReport(input, output.report)

\* the same for the files in which no line after the header's metadata
\* block starts with a closing parenthesis
C16_NoLaterParenthesis ==
  (output.returned /\ input.header \in {"one", "commented"} /\ ~input.tail /\ input.metadata # "unclosed")
    => NamespaceReport(input, output.report)


(***************************************************************************)
(* The Composer (viewer/usda/usdaComposer.js).  Its source is not in the   *)
(* tree: composePrimsFromHierarchy is modelled from section 4.3 of the     *)
(* specification and from the output its unit tests require                *)
(* (usdaComposer.test.js).  A prim is [name, type, specifier, properties,  *)
(* references, children]; properties lists the [k, v] entries in insertion *)
(* order.  The text is kept as its lines, each line the values it          *)
(* interpolates.                                                           *)
(***************************************************************************)
S_status == <<"s", "t", "a", "t", "u", "s">>
S_displayColor == <<"d", "i", "s", "p", "l", "a", "y", "C", "o", "l", "o", "r">>
SystemKeys == {S_status, <<"d", "i", "s", "p", "l", "a", "y", "N", "a", "m", "e">>, <<"e", "n", "t", "i", "t", "y", "T", "y", "p", "e">>}
S_primvars == <<"p", "r", "i", "m", "v", "a", "r", "s", ":">>
S_ifc == <<"i", "f", "c", ":">>

\* Number.prototype.toString of a number given in 1e-5 units
RECURSIVE FractionDigits(_, _)
FractionDigits(f, width) ==
  IF f = 0 THEN <<>>
  ELSE <<Digits[(f \div width) + 1]>> \o FractionDigits((f % width) * 10, width)

NumberText(u) ==
  LET a == IF u < 0 THEN 0 - u ELSE u IN
  (IF u < 0 THEN <<"-">> ELSE <<>>) \o NatToStr(a \div Unit)
  \o (IF a % Unit = 0 THEN <<>> ELSE <<".">> \o FractionDigits(a % Unit, Unit \div 10))

valueLiteral(value) ==
  CASE value.t = "str" -> Quote(value.s)
    [] value.t = "num" -> IntToStr(value.n)
    [] value.t = "real" -> NumberText(value.u)
    [] value.t = "bool" -> IF value.b THEN <<"t", "r", "u", "e">> ELSE <<"f", "a", "l", "s", "e">>
    [] value.t = "color" -> <<"[", "(">> \o NumberText(value.r) \o <<",", " ">> \o NumberText(value.g)
                              \o <<",", " ">> \o NumberText(value.b) \o <<")", "]">>
    [] OTHER -> Quote(<<>>)

\* a writer that leaves a key without a namespace as it is
attributeNameAsGiven(key, value) ==
  IF value.t = "color" THEN S_primvars \o key
  ELSE IF key \in SystemKeys THEN S_primvars \o key
  ELSE key

\* the name a property is emitted under
attributeName(key, value) ==
  IF value.t = "color" THEN S_primvars \o key
  ELSE IF Includes(key, <<":">>) THEN key
  ELSE IF key \in SystemKeys THEN S_primvars \o key
  ELSE S_ifc \o key

\* the type a property is emitted with
attributeType(key, value) ==
  IF value.t = "color" THEN "color3f[]"
  ELSE IF key = S_status THEN "token"
  ELSE IF value.t = "str" THEN "string"
  ELSE IF IsNumber(value) THEN "float"
  ELSE IF value.t = "bool" THEN "bool"
  ELSE "string"

composeProperty(p, indent) ==
  [kind |-> "attribute", indent |-> indent, custom |-> p.v.t # "color",
   type |-> attributeType(p.k, p.v), name |-> attributeName(p.k, p.v),
   value |-> valueLiteral(p.v)]

\* the properties of a prim, its status first when it has none of its own
withStatus(properties, defaultStatus) ==
  IF \E i \in 1..Len(properties) : properties[i].k = S_status THEN properties
  ELSE <<[k |-> S_status, v |-> PStr(defaultStatus)]>> \o properties

RECURSIVE composeFrom(_, _, _, _)
composeFrom(prims, i, indent, defaultStatus) ==
  IF i > Len(prims) THEN <<>>
  ELSE LET prim == prims[i]
           properties == withStatus(prim.properties, defaultStatus) IN
       <<[kind |-> "open", indent |-> indent, specifier |-> prim.specifier,
          type |-> prim.type, name |-> prim.name]>>
       \o (IF prim.references.has
           THEN <<[kind |-> "references", indent |-> indent + 1, value |-> prim.references.text]>>
           ELSE <<>>)
       \o [j \in 1..Len(properties) |-> composeProperty(properties[j], indent + 1)]
       \o composeFrom(prim.children, 1, indent + 1, defaultStatus)
       \o <<[kind |-> "close", indent |-> indent]>>
       \o composeFrom(prims, i + 1, indent, defaultStatus)

composePrimsFromHierarchy(prims, indent, defaultStatus) == composeFrom(prims, 1, indent, defaultStatus)

(***************************************************************************)
(* The prim trees and values the Composer and the converter's attribute    *)
(* writer are applied to.                                                  *)
(***************************************************************************)
Property(k, v) == [k |-> k, v |-> v]
Prim(name, type, properties, references, children) ==
  [name |-> name, type |-> type, specifier |-> "def", properties |-> properties,
   references |-> references, children |-> children]

PropertyLists ==
  { <<>>,
    <<Property(S_status, PStr(<<"W", "I", "P">>)), Property(<<"c", "u", "s", "t", "o", "m", "N", "u", "m", "b", "e", "r">>, PNum(42)),
      Property(<<"c", "u", "s", "t", "o", "m", "B", "o", "o", "l">>, PBool(TRUE)), Property(<<"c", "u", "s", "t", "o", "m", "S", "t", "r", "i", "n", "g">>, PStr(<<"v", "a", "l", "u", "e">>))>>,
    <<Property(S_status, PStr(<<"P", "u", "b", "l", "i", "s", "h", "e", "d">>)), Property(<<"P", "s", "e", "t", "_", "W", "a", "l", "l", "C", "o", "m", "m", "o", "n", ":", "F", "i", "r", "e", "R", "a", "t", "i", "n", "g">>, PStr(<<"2", "H", "R">>)),
      Property(<<"i", "f", "c", ":", "p", "s", "e", "t", ":", "P", "s", "e", "t", "_", "A", "c", "t", "i", "o", "n", "R", "e", "q", "u", "e", "s", "t", ":", "C", "o", "m", "m", "e", "n", "t", "s">>, PStr(<<"T", "e", "s", "t", " ", "c", "o", "m", "m", "e", "n", "t">>))>>,
    <<Property(S_displayColor, PColor(Num(1), 0, 0))>>,
    <<Property(S_status, PStr(<<"S", "h", "a", "r", "e", "d">>)), Property(<<"d", "i", "s", "p", "l", "a", "y", "N", "a", "m", "e">>, PStr(<<"M", "y", " ", "M", "e", "s", "h">>)),
      Property(S_displayColor, PColor(50000, 50000, 50000)), Property(<<"c", "u", "s", "t", "o", "m", "F", "l", "o", "a", "t">>, PReal(314000)),
      Property(<<"P", "s", "e", "t", "_", "C", "u", "s", "t", "o", "m", ":", "P", "r", "o", "p", "e", "r", "t", "y">>, PStr(<<"v", "a", "l", "u", "e">>)), Property(<<"e", "n", "t", "i", "t", "y", "T", "y", "p", "e">>, PStr(<<"I", "F", "C", "W", "A", "L", "L">>))>>,
    <<Property(S_status, PStr(<<"W", "I", "P">>)), Property(<<"i", "f", "c", ":", "i", "d">>, PNum(123456)),
      Property(<<"c", "u", "s", "t", "o", "m", "T", "h", "i", "c", "k", "n", "e", "s", "s">>, PReal(20000))>> }

ReferenceChoices == {NoText, Text(<<"@", "s", "o", "u", "r", "c", "e", ".", "u", "s", "d", "a", "@", "<", "/", "W", "o", "r", "l", "d", "/", "R", "e", "f", "e", "r", "e", "n", "c", "e", "d", "P", "r", "i", "m", ">">>)}

\* one prim; a parent and its child; a parent, two children and a grandchild
PrimTrees ==
  { <<Prim(<<"T", "e", "s", "t", "P", "r", "i", "m">>, "Xform", p, r, <<>>)>> : p \in PropertyLists, r \in ReferenceChoices }
  \cup { <<Prim(<<"P", "a", "r", "e", "n", "t">>, "Xform", p, NoText, <<Prim(<<"C", "h", "i", "l", "d">>, "Mesh", q, NoText, <<>>)>>)>> :
           p \in PropertyLists, q \in PropertyLists }
  \cup { <<Prim(<<"I", "F", "C", "M", "o", "d", "e", "l">>, "Xform", <<>>, NoText,
            <<Prim(<<"B", "u", "i", "l", "d", "i", "n", "g">>, "Xform", p, NoText, <<Prim(<<"W", "a", "l", "l">>, "Mesh", p, NoText, <<>>)>>),
              Prim(<<"S", "i", "t", "e">>, "Xform", p, NoText, <<>>)>>)>> : p \in PropertyLists }

PropertyValues ==
  { PStr(<<"2", "H", "R">>), PNum(42), PReal(Num(2)), PReal(314000), PBool(TRUE), PNull,
    PArray(<<PNum(1), PNum(2)>>), PColor(Num(1), 0, 0) }

ComposeInit ==
  /\ ConverterIdle
  /\ pc = "compose"
  /\ input \in [prims : PrimTrees, status : {<<"P", "u", "b", "l", "i", "s", "h", "e", "d">>}, value : PropertyValues]
  /\ output = [composed |-> <<>>, type |-> ""]

\* composePrimsFromHierarchy(prims, 0, defaultStatus)
ComposePrimsFromHierarchy ==
  /\ pc = "compose"
  /\ pc' = "attribute"
  /\ output' = [output EXCEPT !.composed = composePrimsFromHierarchy(input.prims, 0, input.status)]
  /\ UNCHANGED <<conv, model, runs, progress, input>>

\* the type of the attribute the converter writes for a property value
InferUSDType ==
  /\ pc = "attribute"
  /\ pc' = "done"
  /\ output' = [output EXCEPT !.type = inferUSDType(input.value)]
  /\ UNCHANGED <<conv, model, runs, progress, input>>

ComposeNext == ComposePrimsFromHierarchy \/ InferUSDType

SpecCompose == ComposeInit /\ [][ComposeNext]_vars

\* the attribute lines of a composed text, and the properties of a prim tree
\* in the order of the walk
ComposedAttributes(lines) == SelectSeq(lines, LAMBDA l : l.kind = "attribute")

RECURSIVE PropertiesFrom(_, _, _)
PropertiesFrom(prims, i, defaultStatus) ==
  IF i > Len(prims) THEN <<>>
  ELSE withStatus(prims[i].properties, defaultStatus)
       \o PropertiesFrom(prims[i].children, 1, defaultStatus)
       \o PropertiesFrom(prims, i + 1, defaultStatus)

IsColorVector(type) == type \in {"color3f", "color3f[]"}

UnderOneRule(p, line) ==
  IF Includes(p.k, <<":">>) THEN line.custom /\ line.name = p.k
  ELSE IF p.k \in SystemKeys THEN line.custom /\ line.name = S_primvars \o p.k
  ELSE IF p.v.t = "color" THEN ~line.custom /\ IsColorVector(line.type)
  ELSE line.custom /\ line.name = S_ifc \o p.k

ClaimedTypes(value) ==
  CASE value.t = "str" -> {"string", "token"}
    [] IsNumber(value) -> IF isInteger(value) THEN {"int"} ELSE {"double"}
    [] value.t = "bool" -> {"bool"}
    [] value.t = "color" -> {"color3f", "color3f[]"}
    [] OTHER -> {"string", "string[]", "token"}

\* C18: the type of every property the Composer emits, and of every
\* attribute the converter emits through inferUSDType, follows the value: a
\* string gives a quoted string type, an integer-valued number int, any
\* other number double, a boolean bool, an object with r, g, b a color
\* vector type.
C18_TypeFromValue ==
  pc = "done" =>
    LET lines == ComposedAttributes(output.composed)
        properties == PropertiesFrom(input.prims, 1, input.status) IN
    /\ \A i \in 1..Len(lines) : lines[i].type \in ClaimedTypes(properties[i].v)
    /\ output.type \in ClaimedTypes(input.value)

\* the converter alone, on strings, numbers and booleans
C18_ConverterScalars ==
  (pc = "done" /\ input.value.t \in {"str", "num", "real", "bool"}) =>
    output.type \in ClaimedTypes(input.value)

\* the converter and the Composer on everything but the Composer's numbers
\* and the converter's objects
C18_ExceptNumbersAndObjects ==
  pc = "done" =>
    LET lines == ComposedAttributes(output.composed)
        properties == PropertiesFrom(input.prims, 1, input.status) IN
    /\ \A i \in 1..Len(lines) :
         ~IsNumber(properties[i].v) => lines[i].type \in ClaimedTypes(properties[i].v)
    /\ input.value.t # "color" => output.type \in ClaimedTypes(input.value)

\* the types of the five categories other than physical/spatial
OtherCategories ==
  CATEGORY_6_GLOBAL_CONTEXT \cup CATEGORY_2_TYPE_DEFINITIONS \cup CATEGORY_4_MATERIALS_STYLING
  \cup CATEGORY_5_GEOMETRY_SOURCE \cup CATEGORY_RELATIONSHIPS

ByExclusion(entityID, type, others) ==
  /\ isPhysicalOrSpatial(type) <=> type \notin others
  /\ type \in others => ~MapHas(conv.entityToSignature, entityID)

\* C19: a type is physical/spatial exactly when it is in none of the five
\* other categories (global context, type definitions, materials, geometry
\* source, relationships), and no entity of one of those five is analysed
\* for classes.  Stated of a converter's first run: entityToSignature keeps
\* the entries of earlier runs.
C19_PhysicalByExclusion ==
  \A i \in 1..Len(conv.entityCache) :
    runs = 1 =>
    ByExclusion(conv.entityCache[i].k, conv.entityCache[i].v.type, OtherCategories)

\* the same for every entity that is not a relationship
C19_ExceptRelationships ==
  \A i \in 1..Len(conv.entityCache) :
    (runs = 1 /\ conv.entityCache[i].v.type \notin CATEGORY_RELATIONSHIPS) =>
      ByExclusion(conv.entityCache[i].k, conv.entityCache[i].v.type, OtherCategories)

\* the phases after processCategoryRelationships
AfterRelationships == {"hierarchy", "generate", "finalize", "done"}

TypeReferenced(relation) ==
  \A k \in 1..Len(relation.RelatedObjects) :
    LET entityID == relation.RelatedObjects[k] IN
    /\ MapHas(conv.typeRelations, entityID)
    /\ MapGet(conv.typeRelations, entityID) = relation.RelatingType
    /\ pc = "done" =>
         \A n \in 1..Len(PrimsOf(conv.usdContent, entityID)) :
           PrimsOf(conv.usdContent, entityID)[n].typeRef = relation.RelatingType

\* C20: once processCategoryRelationships has finished, typeRelations maps
\* every entity a defines-by-type relationship lists among its related
\* objects to the id of the relating type, and the prim written for that
\* entity carries that id as ifc:type_ref.
C20_TypeReferencesAttached ==
  pc \in AfterRelationships =>
    \A i \in 1..Len(conv.entityCache) :
      conv.entityCache[i].v.type = "IFCRELDEFINESBYTYPE" => TypeReferenced(conv.entityCache[i].v)

(***************************************************************************)
(* createSignature on two entities, and the key list the converter gets    *)
(* back from a signature (PropertySetAnalyzer, analyzeAndCreateClasses).   *)
(***************************************************************************)
\* const [, propsStr] = signature.split("|"); propsStr ? propsStr.split(",") : []
signatureKeys(signature) ==
  LET parts == Split(signature, "|")
      propsStr == IF Len(parts) >= 2 THEN parts[2] ELSE <<>>
  IN IF propsStr # <<>> THEN Split(propsStr, ",") ELSE <<>>

PropertyKeys == {<<"a">>, <<"b">>, <<"a", ",", "b">>, <<"a", "|", "b">>, <<"i", "f", "c", ":", "p", "s", "e", "t", ":", "S", ":", "P">>}

\* the keys of an object in insertion order: no key twice
KeyLists ==
  {<<>>} \cup {<<k>> : k \in PropertyKeys}
  \cup {p \in {<<k, l>> : k \in PropertyKeys, l \in PropertyKeys} : p[1] # p[2]}

AnalyzedEntity(typeName, keys, value) ==
  [typeName |-> typeName, properties |-> [i \in 1..Len(keys) |-> [k |-> keys[i], v |-> PNum(value)]]]

SignatureTypes == {getTypeName("IFCWALL"), getTypeName("IFCBUILDING")}

SignatureInit ==
  /\ ConverterIdle
  /\ pc = "signature"
  /\ input \in [a : {AnalyzedEntity(t, k, v) : t \in SignatureTypes, k \in KeyLists, v \in {1, 2}},
                b : {AnalyzedEntity(t, k, 1) : t \in SignatureTypes, k \in KeyLists}]
  /\ output = [a |-> <<>>, b |-> <<>>, keysA |-> <<>>, keysB |-> <<>>]

\* analyzeEntities gives each entity its signature
CreateSignature ==
  /\ pc = "signature"
  /\ pc' = "split"
  /\ output' = [output EXCEPT !.a = createSignature(input.a.typeName, input.a.properties),
                              !.b = createSignature(input.b.typeName, input.b.properties)]
  /\ UNCHANGED <<conv, model, runs, progress, input>>

\* analyzeAndCreateClasses takes the keys back out of the signature
SplitSignature ==
  /\ pc = "split"
  /\ pc' = "done"
  /\ output' = [output EXCEPT !.keysA = signatureKeys(output.a), !.keysB = signatureKeys(output.b)]
  /\ UNCHANGED <<conv, model, runs, progress, input>>

SignatureNext == CreateSignature \/ SplitSignature

SpecSignature == SignatureInit /\ [][SignatureNext]_vars

KeySetOf(entity) == MapKeySet(entity.properties)

SignatureFaithful ==
  /\ (output.a = output.b) <=>
       (input.a.typeName = input.b.typeName /\ KeySetOf(input.a) = KeySetOf(input.b))
  /\ SeqToSet(output.keysA) = KeySetOf(input.a)
  /\ SeqToSet(output.keysB) = KeySetOf(input.b)

\* C21: two entities have the same signature exactly when they have the same
\* type name and the same set of property keys, whatever the insertion order
\* and the values, also for keys holding ',' or '|'; and the key list taken
\* back from a signature is the entity's key set.
C21_SignatureIffSameKeys == pc = "done" => SignatureFaithful

Plain(entity) == \A k \in KeySetOf(entity) : ~Includes(k, <<",">>) /\ ~Includes(k, <<"|">>)

\* the same for keys that hold neither ',' nor '|'
C21_PlainKeys == (pc = "done" /\ Plain(input.a) /\ Plain(input.b)) => SignatureFaithful

(***************************************************************************)
(* Files whose walls carry names chosen by their author: shared names,     *)
(* names that differ in a character sanitizeName replaces, no name.        *)
(***************************************************************************)
WallNames == {<<>>, <<"W", "a", "l", "l">>, <<"W", " ", "1">>, <<"W", "-", "1">>}

\* the file m with the walls 2, 3 and 4 named names[1], names[2], names[3]
Renamed(m, names) ==
  [m EXCEPT !.ent = [id \in Ids |->
     IF id \in Walls /\ m.ent[id].st = "ok"
     THEN Ok([m.ent[id].val EXCEPT !.Name = names[id - 1]])
     ELSE m.ent[id]]]

NamedInputs == {Renamed(Healthy, names) : names \in [1..3 -> WallNames]}

NamesInit ==
  /\ conv = NewConverter
  /\ model \in NamedInputs
  /\ runs = 1
  /\ pc = "start"
  /\ progress = <<>>
  /\ input = Undef
  /\ output = Undef

\* one call of convert()
ConvertOnce ==
  \/ Start
  \/ GatherAllEntities
  \/ AnalyzeAndCreateClasses
  \/ ProcessCategory6
  \/ ProcessCategory2
  \/ ProcessCategory4
  \/ ProcessCategory5
  \/ DetectGeometryInstances
  \/ ProcessCategoryRelationships
  \/ ProcessCategory1
  \/ GenerateUSDFile
  \/ Finalize

SpecNames == NamesInit /\ [][ConvertOnce]_vars

SiblingsDistinct(nodes) ==
  \A i, j \in 1..Len(nodes) : i # j => nodes[i].name # nodes[j].name

UniquePaths(roots) ==
  /\ SiblingsDistinct(roots)
  /\ \A n \in SeqToSet(AllNodes(roots)) : SiblingsDistinct(n.children)

\* C22: no two sibling nodes of the hierarchy the walk produces, and no two
\* sibling prims of the document, have the same sanitized name, whatever
\* the names of the entities.
C22_UniquePrimPaths ==
  /\ UniquePaths(conv.hierarchyUSD)
  /\ pc = "done" => UniquePaths(conv.usdContent.prims)

\* the same when the names of the entities are different after sanitizeName
C22_DistinctSanitizedNames ==
  (\A a, b \in Walls :
     a # b => sanitizeName(model.ent[a].val.Name) # sanitizeName(model.ent[b].val.Name)
              \/ model.ent[a].val.Name = <<>>)
  => C22_UniquePrimPaths

(***************************************************************************)
(* extractGeometriesDirect line by line.  The files: Xform, Scope and Mesh *)
(* blocks in several layouts, the opening braces of the groups and of the  *)
(* meshes on the definition line or on the line below.                     *)
(***************************************************************************)
GroupOpen(kind, name, below) ==
  IF below THEN << <<"d", "e", "f", " ">> \o kind \o <<" ", "\"">> \o name \o <<"\"">>, <<"{">> >>
  ELSE << <<"d", "e", "f", " ">> \o kind \o <<" ", "\"">> \o name \o <<"\"", " ", "{">> >>

Group(kind, name, below, body) == GroupOpen(kind, name, below) \o body \o << <<"}">> >>

GoodMesh(below) == MeshLines(<<"G", "e", "o", "m", "e", "t", "r", "y">>, "good", "good", below)

Layouts == 1..6

LayoutLines(layout, xb, mb) ==
  CASE layout = 1 -> Group(<<"X", "f", "o", "r", "m">>, <<"A">>, xb, GoodMesh(mb)) \o GoodMesh(mb)
    [] layout = 2 -> Group(<<"X", "f", "o", "r", "m">>, <<"P">>, xb,
                           Group(<<"X", "f", "o", "r", "m">>, <<"A">>, xb, GoodMesh(mb))
                           \o Group(<<"X", "f", "o", "r", "m">>, <<"B">>, xb, GoodMesh(mb)))
                     \o GoodMesh(mb)
    [] layout = 3 -> Group(<<"X", "f", "o", "r", "m">>, <<"P">>, xb,
                           Group(<<"X", "f", "o", "r", "m">>, <<"A">>, xb, GoodMesh(mb) \o GoodMesh(mb))
                           \o GoodMesh(mb))
    [] layout = 4 -> Group(<<"S", "c", "o", "p", "e">>, <<"S">>, xb, GoodMesh(mb)) \o Group(<<"X", "f", "o", "r", "m">>, <<"A">>, xb, GoodMesh(mb))
    [] layout = 5 -> GoodMesh(mb) \o GoodMesh(mb)
    [] layout = 6 -> Group(<<"X", "f", "o", "r", "m">>, <<"A">>, xb, <<>>) \o Group(<<"X", "f", "o", "r", "m">>, <<"B">>, xb, GoodMesh(mb))

ScanFiles == {LayoutLines(l, xb, mb) : l \in Layouts, xb \in BOOLEAN, mb \in BOOLEAN}

ScanInit ==
  /\ ConverterIdle
  /\ pc = "scan"
  /\ input \in ScanFiles
  /\ output = ScanStart

\* one turn of the loop over the lines
ScanLine ==
  /\ pc = "scan"
  /\ output.next <= Len(input)
  /\ output' = scanLine(output, input, output.next)
  /\ UNCHANGED <<conv, pc, model, runs, progress, input>>

\* the loop has ended: return meshes
ReturnMeshes ==
  /\ pc = "scan"
  /\ output.next > Len(input)
  /\ pc' = "done"
  /\ UNCHANGED <<conv, model, runs, progress, input, output>>

ScanNext == ScanLine \/ ReturnMeshes

SpecScan == ScanInit /\ [][ScanNext]_vars

\* The blocks of a text, read brace by brace: a "{" opens the block of the
\* last definition line, a "}" closes the innermost open block.  owners
\* lists, for each Mesh block, the innermost Xform open when it opens.
NoHeader == [kind |-> "none", name |-> <<>>]

HeaderOf(t, before) ==
  IF matchXform(t).has THEN [kind |-> "Xform", name |-> matchXform(t).text]
  ELSE IF testMesh(t) THEN [kind |-> "Mesh", name |-> <<>>]
  ELSE IF LitAt(t, 1, <<"d", "e", "f", " ">>) THEN [kind |-> "other", name |-> <<>>]
  ELSE before

XformsOf(open) == SelectSeq(open, LAMBDA b : b.kind = "Xform")

InnermostXform(open) ==
  IF XformsOf(open) = <<>> THEN NoText ELSE Text(XformsOf(open)[Len(XformsOf(open))].name)

RECURSIVE readChars(_, _, _)
readChars(t, k, r) ==
  IF k > Len(t) THEN r
  ELSE IF t[k] = "{"
       THEN readChars(t, k + 1,
              [open |-> Append(r.open, r.header), header |-> NoHeader,
               owners |-> IF r.header.kind = "Mesh" THEN Append(r.owners, InnermostXform(r.open))
                          ELSE r.owners])
  ELSE IF t[k] = "}" /\ r.open # <<>>
       THEN readChars(t, k + 1, [r EXCEPT !.open = SubSeq(@, 1, Len(@) - 1)])
  ELSE readChars(t, k + 1, r)

RECURSIVE readLines(_, _)
readLines(lines, n) ==
  IF n = 0 THEN [open |-> <<>>, header |-> NoHeader, owners |-> <<>>]
  ELSE LET r == readLines(lines, n - 1)
           t == trim(lines[n]) IN
       readChars(SelectSeq(t, LAMBDA ch : ch \in {"{", "}"}), 1,
                 [r EXCEPT !.header = HeaderOf(t, r.header)])

\* the Xform blocks open after n lines, a definition line whose brace is on
\* the next line included
OpenXforms(lines, n) ==
  LET r == readLines(lines, n) IN
  [i \in 1..Len(XformsOf(r.open)) |-> XformsOf(r.open)[i].name]
  \o (IF r.header.kind = "Xform" THEN <<r.header.name>> ELSE <<>>)

ExpectedMeshName(owner, k) ==
  (IF owner.has THEN owner.text ELSE <<"M", "e", "s", "h">> \o NatToStr(k)) \o <<"/", "G", "e", "o", "m", "e", "t", "r", "y">>

\* C23: whenever the scanner is outside a mesh body its depth counter is the
\* brace nesting depth of the text read so far and its stack holds exactly
\* the open Xform blocks, and every mesh emitted so far is named after its
\* innermost enclosing Xform ('Mesh<k>' without one), wherever the opening
\* braces are written and however many blocks were closed before.
C23_DepthAndStackExact ==
  ~output.insideMesh =>
    /\ output.globalDepth = Len(readLines(input, output.next - 1).open)
    /\ [i \in 1..Len(output.xformStack) |-> output.xformStack[i].name] = OpenXforms(input, output.next - 1)
    /\ \A k \in 1..Len(output.meshes) :
         output.meshes[k].name = ExpectedMeshName(readLines(input, Len(input)).owners[k], k - 1)

\* true of a file when every Xform and every Mesh has its opening brace on
\* the line below its definition line
BracesBelow(lines) ==
  \A i \in 1..Len(lines) :
    (testMesh(trim(lines[i])) \/ matchXform(trim(lines[i])).has) => ~Includes(lines[i], <<"{">>)

\* the same for files whose Xform and Mesh blocks open on the line below
C23_BracesBelow == BracesBelow(input) => C23_DepthAndStackExact

(***************************************************************************)
(* hashGeometry byte by byte: the numbers it hands to hashNumber in order, *)
(* the eight bytes of each, the running hash after every byte.             *)
(***************************************************************************)
RECURSIVE sampledNumbers(_, _, _)
sampledNumbers(triples, i, step) ==
  IF i > Len(triples) THEN <<>>
  ELSE triples[i] \o sampledNumbers(triples, i + step, step)

\* the arguments of the calls of hashNumber, in order
hashedNumbers(points, faces) ==
  <<Num(Len(points)), Num(Len(faces))>>
  \o sampledNumbers(points, 1, Max(1, Len(points) \div 100))
  \o sampledNumbers(faces, 1, Max(1, Len(faces) \div 100))

\* hashNumber: the bytes of the number rounded to 4 decimals
roundedBytes(k) ==
  numberToBytes(IF Round4(k) < 0 THEN 0 - Round4(k) ELSE Round4(k), k < 0)

EmptyMesh == [points |-> <<>>, faces |-> <<>>]
FnvInputs ==
  SmallMeshes \cup {EmptyMesh, [points |-> <<<<0 - Num(1), 50000, 12346>>>>, faces |-> <<>>],
                    [points |-> <<>>, faces |-> <<<<0, Num(1), Num(2)>>>>]}

FnvInit ==
  /\ ConverterIdle
  /\ pc = "hash"
  /\ input \in FnvInputs
  /\ output = [hash |-> FNV_OFFSET_BASIS, numbers |-> hashedNumbers(input.points, input.faces),
               bytes |-> <<>>, hex |-> <<>>]

\* hashNumber is entered: rounding and numberToBytes
HashNumber ==
  /\ pc = "hash"
  /\ output.bytes = <<>>
  /\ output.numbers # <<>>
  /\ output' = [output EXCEPT !.bytes = roundedBytes(Head(output.numbers)), !.numbers = Tail(@)]
  /\ UNCHANGED <<conv, pc, model, runs, progress, input>>

\* one turn of the loop over the bytes
HashByte ==
  /\ pc = "hash"
  /\ output.bytes # <<>>
  /\ output' = [output EXCEPT !.hash = hashByte(@, Head(output.bytes), FNV_PRIME), !.bytes = Tail(@)]
  /\ UNCHANGED <<conv, pc, model, runs, progress, input>>

\* return hash.toString(16).padStart(16, "0")
ToHex ==
  /\ pc = "hash"
  /\ output.bytes = <<>>
  /\ output.numbers = <<>>
  /\ pc' = "done"
  /\ output' = [output EXCEPT !.hex = digest(output.hash)]
  /\ UNCHANGED <<conv, model, runs, progress, input>>

FnvNext == HashNumber \/ HashByte \/ ToHex

SpecFnv == FnvInit /\ [][FnvNext]_vars

PsetKeyLists ==
  {<<>>, <<S_ifc_pset \o <<"P", ":", "a">>>>, <<S_ifc_pset \o <<"Q", ":", "b">>>>,
   <<S_ifc_pset \o <<"P", ":", "a">>, S_ifc_pset \o <<"Q", ":", "b">>>>}

GroupEntity(id, typeName, keys) == [entityID |-> id] @@ AnalyzedEntity(typeName, keys, id)

\* entities 1..3 of one kind, entities 4..(3+n) of another, in file order or interleaved
GroupedEntities(t1, k1, t2, k2, n, mixed) ==
  LET first == [i \in 1..3 |-> GroupEntity(i, t1, k1)]
      second == [i \in 1..n |-> GroupEntity(3 + i, t2, k2)]
  IN IF mixed THEN second \o first ELSE first \o second

ClassInputs ==
  {GroupedEntities(t1, k1, t2, k2, n, mixed) :
     t1 \in SignatureTypes, k1 \in PsetKeyLists, t2 \in SignatureTypes, k2 \in PsetKeyLists,
     n \in {2, 3}, mixed \in BOOLEAN}

ClassInit ==
  /\ ConverterIdle
  /\ pc = "analyze"
  /\ input \in ClassInputs
  /\ output = <<>>

\* step 2: analyzeEntities(physicalEntities), identifyClassCandidates(3)
AnalyzeEntities ==
  /\ pc = "analyze"
  /\ pc' = "classes"
  /\ LET a == analyzeEntities([sigs |-> conv.propertySetSignatures, toSig |-> conv.entityToSignature],
                              input, 1)
     IN /\ conv' = [conv EXCEPT !.propertySetSignatures = a.sigs, !.entityToSignature = a.toSig]
        /\ output' = identifyClassCandidates(a.sigs, MinInstances)
  /\ UNCHANGED <<model, runs, progress, input>>

\* steps 3 and 4: _BimBase, then one class per candidate
CreateClasses ==
  /\ pc = "classes"
  /\ pc' = "done"
  /\ conv' = createClasses(
               [conv EXCEPT !.usdClasses = MapSet(@, S_BimBase,
                   [ifcType |-> <<"I", "F", "C", "_", "B", "A", "S", "E">>, properties |-> <<>>, inherits |-> <<>>])],
               output, input, 1)
  /\ UNCHANGED <<model, runs, progress, input, output>>

ClassNext == AnalyzeEntities \/ CreateClasses

SpecClasses == ClassInit /\ [][ClassNext]_vars

\* the class of an entity was made from the entity's own signature group
ClassOfOwnGroup(entityID) ==
  LET signature == MapGet(conv.entityToSignature, entityID)
      group == MapGet(conv.propertySetSignatures, signature)
      class == MapGet(conv.usdClasses, MapGet(conv.entityToClass, entityID))
  IN /\ MapHas(conv.usdClasses, MapGet(conv.entityToClass, entityID))
     /\ class.ifcType = group.typeName
     /\ class.properties = commonPropsOf(signature, group.entities[1], input)

ClassesPerSignature ==
  /\ \A i, j \in 1..Len(output) :
       i # j => generateClassName(output[i].k) # generateClassName(output[j].k)
  /\ \A i \in 1..Len(output) : MapHas(conv.usdClasses, generateClassName(output[i].k))
  /\ Len(conv.usdClasses) = Len(output) + 1
  /\ \A e \in MapKeySet(conv.entityToClass) : ClassOfOwnGroup(e)

\* C25: different candidate signatures get different class names, so after
\* analyzeAndCreateClasses every candidate has its own usdClasses entry and
\* every entity mapped to a class belongs to the group the class was made of.
C25_ClassNamePerSignature == pc = "done" => ClassesPerSignature

\* the first eight characters of the key list decide, with the type
PropsHash(signature) == Substring0(Split(signature, "|")[2], 8)

\* the statement for candidates that differ in type or in the first eight
\* characters of their key lists
C25_DistinctPrefixes ==
  (/\ pc = "done"
   /\ \A i, j \in 1..Len(output) :
        i # j => \/ output[i].v.typeName # output[j].v.typeName
                 \/ PropsHash(output[i].k) # PropsHash(output[j].k))
  => ClassesPerSignature

\* two candidates were made into classes
C25_TwoCandidates == pc = "done" /\ Len(output) = 2 /\ ClassesPerSignature

(***************************************************************************)
(* Backend upload (middleware/upload.js) and the paths of POST /api/convert *)
(* (routes/convert.js).                                                    *)
(***************************************************************************)
\* String.prototype.toLowerCase
toLowerCase(s) == [i \in 1..Len(s) |-> IF InSeq(Upper, s[i]) THEN Lower[IndexIn(Upper, s[i])] ELSE s[i]]

\* path.extname of a file name without directory: from the last '.' to the
\* end, empty when there is no '.' or the only one is the first character
extname(name) ==
  LET dots == {i \in 1..Len(name) : name[i] = "."} IN
  IF dots = {} THEN <<>>
  ELSE LET last == CHOOSE i \in dots : \A j \in dots : j <= i
       IN IF last = 1 THEN <<>> ELSE SubSeq(name, last, Len(name))

\* s.replace(pat, rep) with a string pattern: the first occurrence only
replaceFirst(s, pat, rep) ==
  LET at == {i \in 1..(Len(s) - Len(pat) + 1) : SubSeq(s, i, i + Len(pat) - 1) = pat} IN
  IF at = {} THEN s
  ELSE LET i == CHOOSE x \in at : \A y \in at : x <= y
       IN SubSeq(s, 1, i - 1) \o rep \o SubSeq(s, i + Len(pat), Len(s))

S_dot_ifc == <<".", "i", "f", "c">>
S_dot_usda == <<".", "u", "s", "d", "a">>

\* fileFilter: accepted iff the extension is .ifc in any case
fileFilter(originalname) == toLowerCase(extname(originalname)) = S_dot_ifc

\* storage.filename: `${uuidv4()}${path.extname(file.originalname)}`
filename(uuid, originalname) == uuid \o extname(originalname)

\* const usdPath = ifcPath.replace(".ifc", ".usda")
usdPathOf(ifcPath) == replaceFirst(ifcPath, S_dot_ifc, S_dot_usda)

OriginalNames ==
  {<<"m", ".", "i", "f", "c">>, <<"m", ".", "I", "F", "C">>, <<"m", ".", "I", "f", "c">>, <<"m", ".", "t", "x", "t">>, <<"m">>, <<"a", ".", "i", "f", "c", ".", "I", "F", "C">>, <<".", "i", "f", "c">>, <<"a", ".", "i", "f", "c", ".", "i", "f", "c">>}
\* values of uuidv4() and of the uploads directory
Uuids == {<<"u", "1">>, <<"u", "2">>, <<"u", "3">>}
UploadDirs == {<<"/", "a", "p", "p", "/", "u", "p", "l", "o", "a", "d", "s", "/">>, <<"/", "a", ".", "i", "f", "c", "/", "u", "p", "l", "o", "a", "d", "s", "/">>}

UploadInit ==
  /\ ConverterIdle
  /\ pc = "filter"
  /\ input \in [originalname : OriginalNames, uuid : Uuids, dir : UploadDirs]
  /\ output = [ifcPath |-> <<>>, usdPath |-> <<>>, files |-> <<>>]

FileFilter ==
  /\ pc = "filter"
  /\ pc' = IF fileFilter(input.originalname) THEN "store" ELSE "rejected"
  /\ UNCHANGED <<conv, model, runs, progress, input, output>>

\* multer writes the upload under destination + filename; req.file.path
StoreUpload ==
  /\ pc = "store"
  /\ pc' = "post"
  /\ LET path == input.dir \o filename(input.uuid, input.originalname)
     IN output' = [output EXCEPT !.ifcPath = path, !.files = MapSet(@, path, "ifc")]
  /\ UNCHANGED <<conv, model, runs, progress, input>>

\* the first two lines of the POST handler
PostPaths ==
  /\ pc = "post"
  /\ pc' = "convert"
  /\ output' = [output EXCEPT !.usdPath = usdPathOf(output.ifcPath)]
  /\ UNCHANGED <<conv, model, runs, progress, input>>

\* the Python script writes the converted text to outputPath
WriteOutput ==
  /\ pc = "convert"
  /\ pc' = "converted"
  /\ output' = [output EXCEPT !.files = MapSet(@, output.usdPath, "usda")]
  /\ UNCHANGED <<conv, model, runs, progress, input>>

UploadNext == FileFilter \/ StoreUpload \/ PostPaths \/ WriteOutput

SpecUpload == UploadInit /\ [][UploadNext]_vars

OutputBesideUpload ==
  /\ pc \in {"convert", "converted"} => output.usdPath # output.ifcPath
  /\ pc = "converted" =>
       /\ MapGet(output.files, output.ifcPath) = "ifc"
       /\ MapGet(output.files, output.usdPath) = "usda"

\* C28: for every accepted upload the output path of the POST handler differs
\* from the stored input path: the conversion does not write over the
\* uploaded file, and the download serves the converted text.
C28_OutputPathDiffers == OutputBesideUpload

\* the same for uploads whose extension is .ifc in lower case
C28_LowerCaseExtension ==
  extname(input.originalname) = S_dot_ifc => OutputBesideUpload

C28_LowerCaseConverted ==
  /\ pc = "converted"
  /\ extname(input.originalname) = S_dot_ifc
  /\ output.usdPath # output.ifcPath

(***************************************************************************)
(* Backend convertIFC (services/pythonRunner.js): the promise, the stdout  *)
(* chunks and the close event.  A JSON message is written {p}, {s} or {e}  *)
(* for the types progress, success and error; x is a line that is no JSON. *)
(***************************************************************************)
MessageLines == {<<"{", "p", "}">>, <<"{", "s", "}">>, <<"{", "e", "}">>, <<"x">>}
MaxLines == 2
ExitCodes == {0, 1}

\* what the script writes to stdout: its lines, each ended by a newline
RECURSIVE StdoutOf(_)
StdoutOf(lines) == IF lines = <<>> THEN <<>> ELSE Head(lines) \o <<"\n">> \o StdoutOf(Tail(lines))

\* JSON.parse(line).type, or Throw when the line is not a whole message
parsedType(line) ==
  IF Len(line) = 3 /\ line[1] = "{" /\ line[3] = "}" /\ line[2] \in {"p", "s", "e"}
  THEN line[2] ELSE "throw"

\* resolve and reject settle a pending promise and do nothing to a settled one
settle(promise, outcome) == IF promise = "pending" THEN outcome ELSE promise

\* the loop over the lines of one chunk
RECURSIVE onLines(_, _)
onLines(o, lines) ==
  IF lines = <<>> THEN o
  ELSE LET type == parsedType(Head(lines)) IN
       onLines(CASE type = "p" -> [o EXCEPT !.reported = @ + 1]
                 [] type = "s" -> [o EXCEPT !.promise = settle(@, "resolved")]
                 [] type = "e" -> [o EXCEPT !.promise = settle(@, "rejected")]
                 [] OTHER -> o,
               Tail(lines))

\* data.toString().split("\n").filter((line) => line.trim())
linesOfChunk(chunk) == SelectSeq(Split(chunk, "\n"), LAMBDA line : line # <<>>)

RunnerInit ==
  /\ ConverterIdle
  /\ pc = "running"
  /\ \E n \in 0..MaxLines : \E lines \in [1..n -> MessageLines], code \in ExitCodes :
       /\ input = [lines |-> lines, code |-> code]
       /\ output = [promise |-> "pending", rest |-> StdoutOf(lines), reported |-> 0, whole |-> {}]

\* python.stdout.on("data"): the stream hands over the next piece of the
\* output, cut wherever the pipe cut it
StdoutData ==
  /\ pc = "running"
  /\ \E n \in 1..Len(output.rest) :
       LET chunk == SubSeq(output.rest, 1, n)
           o == onLines(output, linesOfChunk(chunk))
       IN output' = [o EXCEPT !.rest = SubSeq(output.rest, n + 1, Len(output.rest)),
                              !.whole = @ \cup {parsedType(l) : l \in SeqToSet(linesOfChunk(chunk))}]
  /\ UNCHANGED <<conv, pc, model, runs, progress, input>>

\* python.on("close"), after stdout has ended
Close ==
  /\ pc = "running"
  /\ output.rest = <<>>
  /\ pc' = "closed"
  /\ output' = [output EXCEPT !.promise = IF input.code # 0 THEN settle(@, "rejected") ELSE @]
  /\ UNCHANGED <<conv, model, runs, progress, input>>

RunnerNext == StdoutData \/ Close

SpecRunner == RunnerInit /\ [][RunnerNext]_vars

\* the stream delivers what was written and the process closes
SpecRunnerFair == SpecRunner /\ WF_vars(StdoutData) /\ WF_vars(Close)

SuccessEmitted == \E i \in 1..Len(input.lines) : input.lines[i] = <<"{", "s", "}">>

\* C27: the promise of convertIFC is settled once the Python process has
\* closed, for every exit code and every cutting of stdout into chunks.
\* Nothing runs after the close handler, so a promise that is pending in a
\* closed state stays pending.
C27_SettledOnceClosed == pc = "closed" => output.promise # "pending"

\* the same as a property of the fair runs: the process closes and the
\* promise is settled by then
C27_EventuallySettled == <>(pc = "closed" /\ output.promise # "pending")

\* C27, the outcome: resolved when a success message was emitted, else rejected
C27_SettledByMessage ==
  pc = "closed" => output.promise = IF SuccessEmitted THEN "resolved" ELSE "rejected"

\* a process that ends with a code other than 0 always settles the promise
C27_NonZeroExitSettles == (pc = "closed" /\ input.code # 0) => output.promise # "pending"

\* the promise is settled as the first whole success or error line says,
\* else rejected by the exit code, else it is left pending
C27_AsTheCodeSettles ==
  pc = "closed" =>
    \/ output.promise = "resolved" /\ "s" \in output.whole
    \/ output.promise = "rejected" /\ ("e" \in output.whole \/ input.code # 0)
    \/ output.promise = "pending" /\ input.code = 0 /\ output.whole \cap {"s", "e"} = {}

(***************************************************************************)
(* Backend routes (routes/convert.js): one upload, its pendingResults      *)
(* entry, its two files, the expiry timer and the download requests for    *)
(* its downloadId.  pc is the state of the POST handler.                   *)
(***************************************************************************)
MaxDownloads == 2
Downloads == 1..MaxDownloads

\* delete the entry, cleanupFile(usdPath), cleanupFile(cleanupIfc)
removeAndCleanup(o) == [o EXCEPT !.entry = FALSE, !.usdFile = FALSE, !.ifcFile = FALSE]

BackendInit ==
  /\ ConverterIdle
  /\ pc = "converting"
  /\ input = <<>>
  /\ output = [entry |-> FALSE, usdFile |-> FALSE, ifcFile |-> TRUE, timer |-> "unset",
               get |-> [d \in Downloads |-> "idle"]]

\* the script writes the file at outputPath while it runs
ScriptWrites ==
  /\ pc = "converting"
  /\ ~output.usdFile
  /\ output' = [output EXCEPT !.usdFile = TRUE]
  /\ UNCHANGED <<conv, pc, model, runs, progress, input>>

\* await convertIFC resolves: pendingResults.set, setTimeout, complete event
ConversionResolves ==
  /\ pc = "converting"
  /\ pc' = "complete"
  /\ output' = [output EXCEPT !.entry = TRUE, !.timer = "armed"]
  /\ UNCHANGED <<conv, model, runs, progress, input>>

\* await convertIFC rejects: error event, cleanupFile(ifcPath), cleanupFile(usdPath)
ConversionRejects ==
  /\ pc = "converting"
  /\ pc' = "failed"
  /\ output' = [output EXCEPT !.usdFile = FALSE, !.ifcFile = FALSE]
  /\ UNCHANGED <<conv, model, runs, progress, input>>

\* the process closes with code 0 and the promise was not settled: the
\* handler stays at its await
ConversionHangs ==
  /\ pc = "converting"
  /\ pc' = "hung"
  /\ UNCHANGED <<conv, model, runs, progress, input, output>>

\* GET /result/:id up to `await fs.stat`: 404 without an entry
GetResult(d) ==
  /\ pc = "complete"
  /\ output.get[d] = "idle"
  /\ output' = [output EXCEPT !.get[d] = IF output.entry THEN "stat" ELSE "notfound"]
  /\ UNCHANGED <<conv, pc, model, runs, progress, input>>

\* fs.stat has answered: the stream is opened, or the entry is deleted and 404 sent
StatResult(d) ==
  /\ output.get[d] = "stat"
  /\ output' = IF output.usdFile THEN [output EXCEPT !.get[d] = "streaming"]
               ELSE [output EXCEPT !.get[d] = "missing", !.entry = FALSE]
  /\ UNCHANGED <<conv, pc, model, runs, progress, input>>

\* stream.on("end")
StreamEnd(d) ==
  /\ output.get[d] = "streaming"
  /\ output' = [removeAndCleanup(output) EXCEPT !.get[d] = "ended"]
  /\ UNCHANGED <<conv, pc, model, runs, progress, input>>

\* stream.on("error")
StreamError(d) ==
  /\ output.get[d] = "streaming"
  /\ output' = [removeAndCleanup(output) EXCEPT !.get[d] = "errored"]
  /\ UNCHANGED <<conv, pc, model, runs, progress, input>>

\* the client goes away during the download: the read stream is unpiped and
\* neither "end" nor "error" is emitted
ClientDisconnects(d) ==
  /\ output.get[d] = "streaming"
  /\ output' = [output EXCEPT !.get[d] = "disconnected"]
  /\ UNCHANGED <<conv, pc, model, runs, progress, input>>

\* the setTimeout callback, 5 minutes after the registration
Expire ==
  /\ output.timer = "armed"
  /\ output' = [(IF output.entry THEN removeAndCleanup(output) ELSE output) EXCEPT !.timer = "fired"]
  /\ UNCHANGED <<conv, pc, model, runs, progress, input>>

BackendNext ==
  \/ ScriptWrites
  \/ ConversionResolves
  \/ ConversionRejects
  \/ ConversionHangs
  \/ \E d \in Downloads : GetResult(d)
  \/ \E d \in Downloads : StatResult(d)
  \/ \E d \in Downloads : StreamEnd(d)
  \/ \E d \in Downloads : StreamError(d)
  \/ \E d \in Downloads : ClientDisconnects(d)
  \/ Expire

SpecBackend == BackendInit /\ [][BackendNext]_vars

\* the Python process closes, timers fire, fs.stat answers and a download
\* that was started ends, fails or is abandoned; no client has to download
SpecBackendFair ==
  /\ SpecBackend
  /\ WF_vars(ConversionResolves \/ ConversionRejects \/ ConversionHangs)
  /\ WF_vars(Expire)
  /\ \A d \in Downloads : WF_vars(StatResult(d))
  /\ \A d \in Downloads : WF_vars(StreamEnd(d) \/ StreamError(d) \/ ClientDisconnects(d))

Cleaned == ~output.entry /\ ~output.usdFile /\ ~output.ifcFile

\* C26: every registered entry is removed and both files are deleted, at the
\* expiry of the timer at the latest, whatever the downloads did before; a
\* failed conversion registers no entry and deletes both files.
C26_CleanedByExpiry ==
  /\ output.timer = "fired" => Cleaned
  /\ pc = "failed" => Cleaned /\ output.timer = "unset"

\* the same as a property of the fair runs
C26_EventuallyCleaned == <>[]Cleaned

\* the entry itself is always removed by the expiry
C26_EntryRemoved == output.timer = "fired" => ~output.entry

\* the statement for runs in which no download found the result file missing
C26_ResultFilePresent ==
  (\A d \in Downloads : output.get[d] # "missing") => C26_CleanedByExpiry

\* a download was abandoned and the timer cleaned up after it
C26_ExpiredAfterDisconnect ==
  /\ output.timer = "fired"
  /\ \E d \in Downloads : output.get[d] = "disconnected"
  /\ \A d \in Downloads : output.get[d] \notin {"ended", "errored", "missing"}
  /\ Cleaned

(***************************************************************************)
(* Material bindings: files whose walls are bound to material 7 or to its  *)
(* duplicate 8, with the names of the two materials varied.                *)
(***************************************************************************)
MaterialNames == {<<>>, <<"M">>, <<"M", " ", "1">>, <<"M", "_", "1">>, <<"S", "t", "-", "3", "7">>}

\* the file with the materials 7 and 8 named name7 and name8 and wall
\* 1 + i bound to material bound[i]
WithMaterials(name7, name8, bound) ==
  LET m == MakeModel(NoFault, UniformProps, BaseGeoms, "IFCMATERIAL", DefaultOptions)
      named(id) == [m.ent[id].val EXCEPT !.Name = IF id = 7 THEN name7 ELSE name8]
  IN [m EXCEPT !.ent = [id \in Ids |-> IF id \in {7, 8} THEN Ok(named(id)) ELSE m.ent[id]],
               !.mats = [id \in Ids |-> IF id \in Walls THEN Ok(<<named(bound[id - 1])>>) ELSE Ok(<<>>)]]

BoundInputs ==
  {WithMaterials(name7, name8, bound) :
     name7 \in MaterialNames, name8 \in {<<"A">>, <<"M">>}, bound \in {<<7, 7, 7>>, <<7, 8, 7>>, <<8, 8, 8>>}}

BindingsInit ==
  /\ conv = NewConverter
  /\ model \in BoundInputs
  /\ runs = 1
  /\ pc = "start"
  /\ progress = <<>>
  /\ input = Undef
  /\ output = Undef

SpecBindings == BindingsInit /\ [][ConvertOnce]_vars

\* the prims of the document with a `rel material:binding` line
BoundPrims(doc) == SelectSeq(AllNodes(doc.prims), LAMBDA p : p.materialBinding # <<>>)

\* the names X of the `def Material "X"` blocks of the document
DefinedMaterials(doc) == {doc.materials[i].name : i \in 1..Len(doc.materials)}

BindingsDefined(doc) ==
  \A p \in SeqToSet(BoundPrims(doc)) : p.materialBinding \in DefinedMaterials(doc)

\* C29: every material:binding of the hierarchy targets a material the
\* Materials scope of the same document defines under exactly that name, for
\* canonical and de-duplicated materials and for names sanitizeName rewrites.
C29_BindingTargetsDefined == pc = "done" => BindingsDefined(conv.usdContent)

\* the same for files whose canonical material has a name sanitizeName
\* leaves as it is
C29_PlainMaterialNames ==
  (LET name == model.ent[7].val.Name IN sanitizeName(name) = name)
  => C29_BindingTargetsDefined

\* a wall bound to the duplicate material 8 is written with the name of 7
C29_DuplicateResolved ==
  /\ pc = "done"
  /\ model.mats[3].val[1].expressID = 8
  /\ MapHas(conv.materialIdToName, 8)
  /\ BoundPrims(conv.usdContent) # <<>>
  /\ BindingsDefined(conv.usdContent)

(***************************************************************************)
(* USDA_PARSER.appendToUsdaFile and findMatchingBrace (usdaParser.js).     *)
(* Positions are those of the code: the first character is at 0.           *)
(***************************************************************************)
SpaceChars == {" ", "\n", "\t"}
IsWordChar(ch) == InSeq(Upper, ch) \/ InSeq(Lower, ch) \/ InSeq(Digits, ch) \/ ch = "_"
WordCharsOf(s) == {s[j] : j \in {h \in 1..Len(s) : IsWordChar(s[h])}}

\* str.slice(a, b) and str.slice(a)
slice(str, a, b) == SubSeq(str, a + 1, b)
sliceFrom(str, a) == SubSeq(str, a + 1, Len(str))

\* the text lit stands at position i
StandsAt(str, i, lit) == i >= 0 /\ i + Len(lit) <= Len(str) /\ slice(str, i, i + Len(lit)) = lit

\* position after the white space that starts at i
afterSpace(str, i) == SkipOver(str, i + 1, SpaceChars) - 1

\* (def|over)(?:\s+\w+)?\s+"<name>" from position i: the position after the
\* closing quote, -1 without a match
afterQuotedName(str, i, name) ==
  LET word == IF StandsAt(str, i, <<"d", "e", "f">>) THEN 3 ELSE IF StandsAt(str, i, <<"o", "v", "e", "r">>) THEN 4 ELSE 0
      p == afterSpace(str, i + word)
      t == SkipOver(str, p + 1, WordCharsOf(str)) - 1
      q == IF t > p /\ afterSpace(str, t) > t THEN afterSpace(str, t) ELSE p
      quoted == <<"\"">> \o name \o <<"\"">>
  IN IF word > 0 /\ p > i + word /\ StandsAt(str, q, quoted) THEN q + Len(quoted) ELSE 0 - 1

\* the whole pattern, with \s*\{ at its end: the length of the match at i, 0 without
primRegexAt(str, i, name) ==
  LET a == afterQuotedName(str, i, name) IN
  IF a >= 0 /\ StandsAt(str, afterSpace(str, a), <<"{">>) THEN afterSpace(str, a) + 1 - i ELSE 0

\* fileContent.match(primRegex): index and length of the leftmost match
matchPrim(str, name) ==
  LET at == {i \in 0..(Len(str) - 1) : primRegexAt(str, i, name) > 0} IN
  IF at = {} THEN [found |-> FALSE, index |-> 0, length |-> 0]
  ELSE LET i == CHOOSE x \in at : \A y \in at : x <= y
       IN [found |-> TRUE, index |-> i, length |-> primRegexAt(str, i, name)]

\* the loop of findMatchingBrace from position i with the depth reached
RECURSIVE braceFrom(_, _, _)
braceFrom(str, i, depth) ==
  IF i >= Len(str) THEN 0 - 1
  ELSE LET d == IF str[i + 1] = "{" THEN depth + 1
                ELSE IF str[i + 1] = "}" THEN depth - 1 ELSE depth
       IN IF d = 0 THEN i ELSE braceFrom(str, i + 1, d)

findMatchingBrace(str, start) == braceFrom(str, start + 1, 1)

NoName == <<>>

AppendFiles ==
  {<<"d", "e", "f", " ", "X", "f", "o", "r", "m", " ", "\"", "A", "\"", " ", "{", "\n", "}", "\n">>,
   <<"d", "e", "f", " ", "\"", "A", "\"", "{", "}">>,
   <<"o", "v", "e", "r", " ", "\"", "A", "\"", " ", "{", "\n", " ", "d", "e", "f", " ", "M", "e", "s", "h", " ", "\"", "B", "\"", " ", "{", "\n", " ", "}", "\n", "}", "\n">>,
   <<"d", "e", "f", " ", "X", "f", "o", "r", "m", " ", "\"", "A", "\"", "\n", "{", "\n", " ", "d", "e", "f", " ", "\"", "B", "\"", " ", "{", "}", "\n", " ", "d", "e", "f", " ", "\"", "C", "\"", " ", "{", "}", "\n", "}", "\n">>,
   <<"d", "e", "f", " ", "X", "f", "o", "r", "m", " ", "\"", "A", "\"", " ", "(", "\n", " ", "k", "i", "n", "d", " ", "=", " ", "\"", "c", "\"", "\n", ")", "\n", "{", "\n", "}", "\n">>,
   <<"d", "e", "f", " ", "X", "f", "o", "r", "m", " ", "\"", "A", "\"", " ", "{", "\n", " ", "d", "e", "f", " ", "\"", "B", "\"", " ", "{", "\n", "}", "\n">>,
   <<"d", "e", "f", " ", "X", "f", "o", "r", "m", " ", "\"", "B", "\"", " ", "{", "\n", " ", "d", "e", "f", " ", "\"", "A", "\"", " ", "{", "\n", " ", "}", "\n", "}", "\n">>,
   <<"#", "u", "s", "d", "a", " ", "1", ".", "0", "\n">>,
   <<>>}

AppendInit ==
  /\ ConverterIdle
  /\ pc = "match"
  /\ input \in [fileContent : AppendFiles, textToAppend : {<<"x">>, <<"d", "e", "f", " ", "\"", "N", "\"", " ", "{", "}", "\n">>},
                rootPrimName : {NoName, <<"A">>, <<"B">>, <<"Z">>}]
  /\ output = [match |-> [found |-> FALSE, index |-> 0, length |-> 0], endBraceIndex |-> 0 - 1,
               result |-> <<>>]

\* if (rootPrimName) { match = fileContent.match(primRegex) ... }
MatchPrim ==
  /\ pc = "match"
  /\ LET match == IF input.rootPrimName # NoName THEN matchPrim(input.fileContent, input.rootPrimName)
                  ELSE output.match
     IN /\ output' = [output EXCEPT !.match = match]
        /\ pc' = IF match.found THEN "brace" ELSE "append"
  /\ UNCHANGED <<conv, model, runs, progress, input>>

\* braceIndex, endBraceIndex = findMatchingBrace(fileContent, braceIndex - 1)
FindMatchingBrace ==
  /\ pc = "brace"
  /\ LET braceIndex == output.match.index + output.match.length
         endBraceIndex == findMatchingBrace(input.fileContent, braceIndex - 1)
     IN /\ output' = [output EXCEPT !.endBraceIndex = endBraceIndex]
        /\ pc' = IF endBraceIndex # 0 - 1 THEN "insert" ELSE "append"
  /\ UNCHANGED <<conv, model, runs, progress, input>>

\* return slice(0, endBraceIndex) + textToAppend + slice(endBraceIndex)
InsertBeforeBrace ==
  /\ pc = "insert"
  /\ pc' = "done"
  /\ output' = [output EXCEPT !.result = slice(input.fileContent, 0, output.endBraceIndex)
                                         \o input.textToAppend
                                         \o sliceFrom(input.fileContent, output.endBraceIndex)]
  /\ UNCHANGED <<conv, model, runs, progress, input>>

\* return fileContent + "\n" + textToAppend
AppendAtEnd ==
  /\ pc = "append"
  /\ pc' = "done"
  /\ output' = [output EXCEPT !.result = input.fileContent \o <<"\n">> \o input.textToAppend]
  /\ UNCHANGED <<conv, model, runs, progress, input>>

AppendNext == MatchPrim \/ FindMatchingBrace \/ InsertBeforeBrace \/ AppendAtEnd

SpecAppend == AppendInit /\ [][AppendNext]_vars

\* the opening brace of the first def/over prim called name, its metadata
\* block in parentheses skipped; -1 when there is no such prim
openingBraceOf(str, name) ==
  LET heads == {i \in 0..(Len(str) - 1) : afterQuotedName(str, i, name) >= 0}
      brace(i) ==
        LET a == afterSpace(str, afterQuotedName(str, i, name))
            close == {j \in a..(Len(str) - 1) : str[j + 1] = ")"}
            b == IF StandsAt(str, a, <<"(">>) /\ close # {}
                 THEN afterSpace(str, (CHOOSE j \in close : \A k \in close : j <= k) + 1) ELSE a
        IN IF StandsAt(str, b, <<"{">>) THEN b ELSE 0 - 1
      prims == {i \in heads : brace(i) >= 0}
  IN IF prims = {} THEN 0 - 1 ELSE brace(CHOOSE i \in prims : \A j \in prims : i <= j)

\* the result has the text inserted at position at, the rest as it was
InsertedAt(at, text) ==
  output.result = slice(input.fileContent, 0, at) \o text \o sliceFrom(input.fileContent, at)

NamesClosedPrim ==
  /\ input.rootPrimName # NoName
  /\ openingBraceOf(input.fileContent, input.rootPrimName) >= 0
  /\ findMatchingBrace(input.fileContent, openingBraceOf(input.fileContent, input.rootPrimName)) >= 0

AppendedAsClaimed ==
  IF NamesClosedPrim
  THEN InsertedAt(findMatchingBrace(input.fileContent,
                                    openingBraceOf(input.fileContent, input.rootPrimName)),
                  input.textToAppend)
  ELSE InsertedAt(Len(input.fileContent), <<"\n">> \o input.textToAppend)

\* C30: the result is the file content with the text inserted at one place:
\* right before the closing brace that matches the opening brace of the prim
\* rootPrimName names, and at the end after a newline in every other case.
C30_InsertedBeforeMatchingBrace == pc = "done" => AppendedAsClaimed

\* the frame alone: nothing of the file content is removed or reordered
C30_OnlyInserts ==
  pc = "done" =>
    \E at \in 0..Len(input.fileContent) :
      InsertedAt(at, input.textToAppend) \/ InsertedAt(at, <<"\n">> \o input.textToAppend)

\* the statement for files in which no prim has a metadata block
C30_WithoutMetadata ==
  (\A i \in 1..Len(input.fileContent) : input.fileContent[i] # "(") => C30_InsertedBeforeMatchingBrace

\* the text went into a prim that has child prims
C30_InsertedInNamedPrim ==
  /\ pc = "done"
  /\ NamesClosedPrim
  /\ output.endBraceIndex > output.match.index + output.match.length + 5
  /\ output.endBraceIndex < Len(input.fileContent) - 1
  /\ AppendedAsClaimed
=============================================================================
